---- MODULE Spec2Model ----
(***************************************************************************)
(* A model of the raster editing engine of smartdraw:                      *)
(* src/src/image-editor/renderer.ts (class Renderer), with the pencil tool *)
(* and the timelapse recorder of src/src/image-editor/TimelapseRecorder.tsx *)
(* that drive it.                                                          *)
(*                                                                         *)
(* The Renderer object is a record whose fields carry the names of the     *)
(* class's fields; every method is an operator from a Renderer record (and *)
(* the method's arguments) to the Renderer record after the call, so that  *)
(* a method that calls another method is the composition the source        *)
(* writes.  The VARIABLES are the fields of the one Renderer instance, the  *)
(* tool and the recorder.                                                  *)
(***************************************************************************)
EXTENDS Integers, Sequences, FiniteSets, TLC

VARIABLES
    undoStack,          \* renderer.ts:6
    redoStack,          \* renderer.ts:7
    currentSnapshot,    \* renderer.ts:8
    backgroundLayer,    \* renderer.ts:10
    baseImageLayer,     \* renderer.ts:11
    refImageLayer,      \* renderer.ts:12
    editLayer,          \* renderer.ts:13
    overlayLayer,       \* renderer.ts:14
    overlayImageOpacity,    \* renderer.ts:16
    referenceImageOpacity,  \* renderer.ts:17
    selectionOverlay,   \* renderer.ts:37
    hasSelection,       \* renderer.ts:38
    cursor,             \* renderer.ts:39
    zoom,               \* renderer.ts:41
    offsetX,            \* renderer.ts:42
    offsetY,            \* renderer.ts:43
    width,              \* renderer.ts:44
    height,             \* renderer.ts:45
    canvas,             \* renderer.ts:96  the output surface
    allocated,          \* number of ImageData objects snapshot() has allocated
    evicted,            \* identities of the snapshots shift() removed (renderer.ts:199)
    notified,           \* runs of notifySnapshotListeners (renderer.ts:209) in the last call
    snapshotListeners,  \* renderer.ts:48
    heard,              \* the listener invocations of the last call, with what each saw
    tool,               \* the PencilTool object (TimelapseRecorder.tsx:146)
    recorder,           \* the TimelapseRecorder component (TimelapseRecorder.tsx:17)
    decodes,            \* the decodes started by encodedImageToImageData (renderer.ts:621)
    sampled,            \* the pixel rows and columns at which surfaces are tracked
    op                  \* the last call made on the renderer and how it ended

vars == <<undoStack, redoStack, currentSnapshot, backgroundLayer, baseImageLayer,
          refImageLayer, editLayer, overlayLayer, overlayImageOpacity,
          referenceImageOpacity, selectionOverlay, hasSelection, cursor, zoom,
          offsetX, offsetY, width, height, canvas, allocated, evicted, notified,
          snapshotListeners, heard, tool, recorder, decodes, sampled, op>>

(***************************************************************************)
(* Bounds of the model.                                                    *)
(***************************************************************************)
\* snapshot() calls explored from the constructed renderer.
MaxAlloc == 3
\* snapshot() calls explored beyond a history that is already full.
MaxExtra == 4
\* how far below a full undo stack undo() is explored in a long history.
MaxBack == 4
\* decodes started.
MaxDecodes == 2

\* snapshot listeners registered at a time.
MaxListeners == 2
\* effect closures the recorder creates (changes of recording or session).
MaxEffects == 3
\* timer periods an upload may last.
MaxOverlap == 1

(***************************************************************************)
(* Program constants.                                                      *)
(***************************************************************************)
maxSnapshots == 50
\* the side of the selection setBaseImage centres on the image
DefaultSelectionSize == 1024
\* the interior margin erasePoint keeps from a selection edge
EraseMargin == 10
\* the size of a canvas element that was created and never sized
DefaultCanvasWidth == 300
DefaultCanvasHeight == 150

\* undefined / null: a record, to compare with the objects a field may hold
None == [undefined |-> TRUE]

(***************************************************************************)
(* JavaScript numbers: a rational <<n, d>> with d > 0 in lowest terms,     *)
(* <<1, 0>> for Infinity, <<-1, 0>> for -Infinity and <<0, 0>> for NaN.    *)
(***************************************************************************)
Abs(i) == IF i < 0 THEN -i ELSE i

Sgn(i) == IF i < 0 THEN -1 ELSE IF i > 0 THEN 1 ELSE 0

RECURSIVE GCD(_, _)
GCD(a, b) == IF b = 0 THEN a ELSE GCD(b, a % b)

Norm(n, d) ==
    IF d = 0 THEN <<Sgn(n), 0>>
    ELSE LET g == GCD(Abs(n), Abs(d))
             s == IF d < 0 THEN -1 ELSE 1
         IN  <<(s * n) \div g, (s * d) \div g>>

Num(i) == <<i, 1>>

NaN == <<0, 0>>

IsFinite(a) == a[2] # 0

Neg(a) == <<-a[1], a[2]>>

Add(a, b) ==
    IF a[2] = 0 /\ b[2] = 0
    THEN IF a = b THEN a ELSE NaN
    ELSE Norm(a[1] * b[2] + b[1] * a[2], a[2] * b[2])

Sub(a, b) == Add(a, Neg(b))

Mul(a, b) == Norm(a[1] * b[1], a[2] * b[2])

Div(a, b) ==
    IF b[1] < 0 THEN Norm(-(a[1] * b[2]), -(a[2] * b[1]))
    ELSE Norm(a[1] * b[2], a[2] * b[1])

Lt(a, b) ==
    IF a = NaN \/ b = NaN THEN FALSE
    ELSE IF a[2] = 0 /\ b[2] = 0 THEN a[1] < b[1]
    ELSE a[1] * b[2] < b[1] * a[2]

Gt(a, b) == Lt(b, a)

\* the conversion of a number to a WebIDL long: truncation toward zero
Trunc(a) == IF a[1] >= 0 THEN a[1] \div a[2] ELSE -((-a[1]) \div a[2])

\* Math.sqrt of a number whose numerator and denominator are perfect squares
Root(n) == CHOOSE k \in 0 .. n : k * k = n

Sqrt(a) == <<Root(a[1]), Root(a[2])>>

\* the conversion of a number to an element of a Uint8ClampedArray: NaN
\* becomes 0, other numbers are rounded to the nearest integer, ties to
\* even, and clamped to 0 .. 255
ToUint8Clamped(a) ==
    IF a[2] = 0 THEN (IF a[1] > 0 THEN 255 ELSE 0)
    ELSE IF a[1] <= 0 THEN 0
    ELSE LET floor == a[1] \div a[2]
             rest == 2 * (a[1] - floor * a[2])
             rounded == IF rest > a[2] THEN floor + 1
                        ELSE IF rest < a[2] THEN floor
                        ELSE IF floor % 2 = 0 THEN floor ELSE floor + 1
         IN  IF rounded > 255 THEN 255 ELSE rounded

\* the sum of the values of the function f over the set S
RECURSIVE Sum(_, _)
Sum(f, S) ==
    IF S = {} THEN 0
    ELSE LET q == CHOOSE q \in S : TRUE
         IN  f[q] + Sum(f, S \ {q})

MinNum(a, b) == IF Lt(b, a) THEN b ELSE a

MaxNum(a, b) == IF Gt(b, a) THEN b ELSE a

(***************************************************************************)
(* Raster surfaces.  A pixel is <<r, g, b, a>>, 8 bits a channel.  A       *)
(* surface (canvas bitmap, ImageData, decoded image) is a record of its    *)
(* width, its height and its pixels at the tracked coordinates.            *)
(***************************************************************************)
Transparent == <<0, 0, 0, 0>>
Red == <<255, 0, 0, 255>>
White == <<255, 255, 255, 255>>
Blue == <<0, 0, 255, 255>>
HalfRed == <<255, 0, 0, 128>>

\* A surface is tracked at the rows and columns in sampled.  Every drawing
\* operation below computes a pixel from pixels at the same place or further
\* left and up, so a tracked pixel never depends on an untracked one as long
\* as sampled is an initial segment 0..n, or nothing is drawn at an offset.
Axis(n) == {c \in sampled : c < n}

Pixels(w, h) == Axis(w) \X Axis(h)

Surface(w, h, fill) ==
    [width |-> w, height |-> h, data |-> [p \in Pixels(w, h) |-> fill]]

\* document.createElement("canvas") followed by setting width and height:
\* a transparent bitmap
NewCanvas(w, h) == Surface(w, h, Transparent)

InBounds(s, x, y) == x >= 0 /\ y >= 0 /\ x < s.width /\ y < s.height

\* the pixel of surface s at (x, y); transparent black outside the surface
At(s, x, y) == IF <<x, y>> \in DOMAIN s.data THEN s.data[<<x, y>>] ELSE Transparent

\* "source-over" compositing of pixel s on pixel d at global alpha 1
SourceOver(s, d) ==
    IF s[4] = 255 THEN s
    ELSE IF s[4] = 0 THEN d
    ELSE LET da == (d[4] * (255 - s[4])) \div 255
             oa == s[4] + da
             ch(i) == (s[i] * s[4] + d[i] * da) \div oa
         IN  <<ch(1), ch(2), ch(3), oa>>

\* context.drawImage(src, dx, dy) on the bitmap dst
DrawImage(dst, src, dx, dy) ==
    [dst EXCEPT !.data = [p \in DOMAIN dst.data |->
        IF InBounds(src, p[1] - dx, p[2] - dy)
        THEN SourceOver(At(src, p[1] - dx, p[2] - dy), dst.data[p])
        ELSE dst.data[p]]]

\* pixel s drawn at globalAlpha opacity (a number between 0 and 1)
Faded(s, opacity) ==
    <<s[1], s[2], s[3], Trunc(Mul(Num(s[4]), opacity))>>

\* context.globalAlpha = opacity; context.drawImage(src, 0, 0) on dst
DrawImageAlpha(dst, src, opacity) ==
    [dst EXCEPT !.data = [p \in DOMAIN dst.data |->
        IF InBounds(src, p[1], p[2])
        THEN SourceOver(Faded(At(src, p[1], p[2]), opacity), dst.data[p])
        ELSE dst.data[p]]]

\* context.putImageData(img, dx, dy) on the bitmap dst: a copy, no blending
PutImageData(dst, img, dx, dy) ==
    [dst EXCEPT !.data = [p \in DOMAIN dst.data |->
        IF InBounds(img, p[1] - dx, p[2] - dy)
        THEN At(img, p[1] - dx, p[2] - dy)
        ELSE dst.data[p]]]

\* context.clearRect(0, 0, w, h) on the bitmap dst
ClearRect(dst, w, h) ==
    [dst EXCEPT !.data = [p \in DOMAIN dst.data |->
        IF p[1] < w /\ p[2] < h THEN Transparent ELSE dst.data[p]]]

\* context.getImageData(0, 0, w, h) of the bitmap src
GetImageData(src, w, h) ==
    [width |-> w, height |-> h,
     data |-> [p \in Pixels(w, h) |-> At(src, p[1], p[2])]]

\* context.arc(x, y, radius, 0, 2*PI); context.fill() with an opaque or
\* transparent fill colour: the pixels whose centre lies in the disc
\* (anti-aliasing of the rim is not modelled).  x, y and diameter are numbers.
InDisc(p, x, y, diameter) ==
    LET dx == Sub(Add(Num(p[1]), <<1, 2>>), x)
        dy == Sub(Add(Num(p[2]), <<1, 2>>), y)
        r == Div(diameter, Num(2))
    IN  Lt(Add(Mul(dx, dx), Mul(dy, dy)), Mul(r, r))

FillDisc(dst, x, y, diameter, color) ==
    [dst EXCEPT !.data = [p \in DOMAIN dst.data |->
        IF InDisc(p, x, y, diameter) THEN SourceOver(color, dst.data[p])
        ELSE dst.data[p]]]

\* context.lineWidth = lineWidth; context.lineCap = "round"; moveTo(x1, y1);
\* lineTo(x2, y2); stroke(): the pixels whose centre is nearer than lineWidth/2
\* to the segment (anti-aliasing is not modelled; a segment of length 0 is
\* taken to leave the dot of its round caps)
NearSegment(p, x1, y1, x2, y2, lineWidth) ==
    LET cx == Add(Num(p[1]), <<1, 2>>)
        cy == Add(Num(p[2]), <<1, 2>>)
        dx == Sub(x2, x1)
        dy == Sub(y2, y1)
        len2 == Add(Mul(dx, dx), Mul(dy, dy))
        along == Div(Add(Mul(Sub(cx, x1), dx), Mul(Sub(cy, y1), dy)), len2)
        t == MaxNum(Num(0), MinNum(Num(1), along))
        ex == Sub(cx, Add(x1, Mul(t, dx)))
        ey == Sub(cy, Add(y1, Mul(t, dy)))
        r == Div(lineWidth, Num(2))
    IN  IF len2 = Num(0) THEN InDisc(p, x1, y1, lineWidth)
        ELSE Lt(Add(Mul(ex, ex), Mul(ey, ey)), Mul(r, r))

StrokeLine(dst, x1, y1, x2, y2, lineWidth, color) ==
    [dst EXCEPT !.data = [p \in DOMAIN dst.data |->
        IF NearSegment(p, x1, y1, x2, y2, lineWidth) THEN SourceOver(color, dst.data[p])
        ELSE dst.data[p]]]

\* a pixel as the bitmap keeps it: the colour of a fully transparent pixel
\* is lost (bitmaps hold premultiplied colours)
Stored(px) == IF px[4] = 0 THEN Transparent ELSE px

(***************************************************************************)
(* The Renderer object.                                                    *)
(***************************************************************************)
\* the Renderer instance the variables hold, as a call on it starts
Self ==
    [undoStack |-> undoStack, redoStack |-> redoStack,
     currentSnapshot |-> currentSnapshot, backgroundLayer |-> backgroundLayer,
     baseImageLayer |-> baseImageLayer, refImageLayer |-> refImageLayer,
     editLayer |-> editLayer, overlayLayer |-> overlayLayer,
     overlayImageOpacity |-> overlayImageOpacity,
     referenceImageOpacity |-> referenceImageOpacity,
     selectionOverlay |-> selectionOverlay, hasSelection |-> hasSelection,
     cursor |-> cursor, zoom |-> zoom, offsetX |-> offsetX, offsetY |-> offsetY,
     width |-> width, height |-> height, canvas |-> canvas,
     allocated |-> allocated, evicted |-> evicted, notified |-> 0,
     snapshotListeners |-> snapshotListeners, heard |-> <<>>]

\* The output canvas element, blank: its pixels below the zoomed layers and
\* the border and cursor strokes (data), and what render() last drew above
\* them (frame).
OutputCanvas(w, h) ==
    [width |-> w, height |-> h, data |-> [p \in Pixels(w, h) |-> Transparent],
     frame |-> None]

\* new Renderer(canvas) for an output canvas element of size cw x ch
constructor(cw, ch) ==
    [undoStack |-> <<>>, redoStack |-> <<>>, currentSnapshot |-> None,
     backgroundLayer |-> NewCanvas(cw, ch),
     baseImageLayer |-> NewCanvas(DefaultCanvasWidth, DefaultCanvasHeight),
     refImageLayer |-> NewCanvas(DefaultCanvasWidth, DefaultCanvasHeight),
     editLayer |-> NewCanvas(DefaultCanvasWidth, DefaultCanvasHeight),
     overlayLayer |-> NewCanvas(DefaultCanvasWidth, DefaultCanvasHeight),
     overlayImageOpacity |-> Num(1), referenceImageOpacity |-> <<3, 10>>,
     selectionOverlay |-> None, hasSelection |-> FALSE, cursor |-> None,
     zoom |-> Num(1), offsetX |-> Num(0), offsetY |-> Num(0),
     width |-> 0, height |-> 0,
     canvas |-> OutputCanvas(cw, ch),
     allocated |-> 0, evicted |-> {}, notified |-> 0,
     snapshotListeners |-> <<>>, heard |-> <<>>]

\* What render() draws on the output surface, in drawing order: the
\* background, then under the zoom/offset transform the four layers with
\* their opacities, the image border and the cursor.
Frame(r) ==
    [background |-> r.backgroundLayer.data,
     zoom |-> r.zoom, offsetX |-> r.offsetX, offsetY |-> r.offsetY,
     base |-> r.baseImageLayer.data,
     reference |-> r.refImageLayer.data,
     referenceOpacity |-> r.referenceImageOpacity,
     edit |-> r.editLayer.data,
     overlay |-> r.overlayLayer.data, overlayOpacity |-> r.overlayImageOpacity,
     border |-> <<r.width, r.height>>, cursor |-> r.cursor]

\* context.setTransform returns without effect when an argument is not finite
transformApplies(r) ==
    /\ IsFinite(r.zoom)
    /\ IsFinite(Mul(r.offsetX, r.zoom))
    /\ IsFinite(Mul(r.offsetY, r.zoom))

\* render() draws the layers pixel on pixel
untransformed(r) ==
    \/ ~transformApplies(r)
    \/ r.zoom = Num(1) /\ r.offsetX = Num(0) /\ r.offsetY = Num(0)

\* render(): the output is cleared over the image's width and height only,
\* and everything else is drawn over what the output holds.  The layers are
\* composited into data when they are drawn pixel on pixel; under a zoom or
\* an offset their contribution is kept in frame.
render(r) ==
    LET cleared == ClearRect(r.canvas, r.width, r.height)
        under == DrawImage(cleared, r.backgroundLayer, 0, 0)
        base == DrawImage(under, r.baseImageLayer, 0, 0)
        reference == DrawImageAlpha(base, r.refImageLayer, r.referenceImageOpacity)
        edit == DrawImage(reference, r.editLayer, 0, 0)
        overlay == DrawImageAlpha(edit, r.overlayLayer, r.overlayImageOpacity)
        drawn == IF untransformed(r) THEN overlay ELSE under
    IN  [r EXCEPT !.canvas = [drawn EXCEPT !.frame = Frame(r)]]

\* faulty variant: canUndo() that forgets the active selection
canUndoIgnoringSelection(r) == Len(r.undoStack) > 0

canUndo(r) == ~r.hasSelection /\ Len(r.undoStack) > 0

canRedo(r) == ~r.hasSelection /\ Len(r.redoStack) > 0

Last(s) == s[Len(s)]

Front(s) == SubSeq(s, 1, Len(s) - 1)

addSnapshotListener(r, listener) ==
    [r EXCEPT !.snapshotListeners = Append(@, listener)]

removeSnapshotListener(r, listener) ==
    [r EXCEPT !.snapshotListeners = SelectSeq(@, LAMBDA l : l # listener)]

\* what a listener such as the editor's onSnapshot sees when it is invoked
observed(r, listener) ==
    [listener |-> listener, canUndo |-> canUndo(r), canRedo |-> canRedo(r)]

\* the sequence s back to front
RECURSIVE Reversed(_)
Reversed(s) == IF s = <<>> THEN <<>> ELSE Append(Reversed(Tail(s)), Head(s))

\* the listeners of r invoked one after the other
RECURSIVE invoked(_, _)
invoked(r, listeners) ==
    IF listeners = <<>> THEN <<>>
    ELSE <<observed(r, Head(listeners))>> \o invoked(r, Tail(listeners))

\* faulty variant: the listener registered last is invoked first
notifySnapshotListenersLastFirst(r) ==
    [r EXCEPT !.notified = @ + 1,
              !.heard = @ \o invoked(r, Reversed(r.snapshotListeners))]

notifySnapshotListeners(r) ==
    [r EXCEPT !.notified = @ + 1, !.heard = @ \o invoked(r, r.snapshotListeners)]

\* the guard of undo(): the call does something
undoTakesEffect(r) == Len(r.undoStack) > 0 /\ r.currentSnapshot # None

undo(r, allowRedo) ==
    IF undoTakesEffect(r)
    THEN LET imageData == Last(r.undoStack)
         IN  notifySnapshotListeners(render([r EXCEPT
                 !.undoStack = Front(@),
                 !.redoStack = IF allowRedo THEN Append(@, r.currentSnapshot) ELSE @,
                 !.currentSnapshot = imageData,
                 !.baseImageLayer =
                     PutImageData(ClearRect(@, @.width, @.height), imageData, 0, 0)]))
    ELSE r

\* the guard of redo()
redoTakesEffect(r) == Len(r.redoStack) > 0 /\ r.currentSnapshot # None

\* Faulty variant: takes the oldest undone snapshot (shift) instead of the
\* newest (pop).
redoOldestUndone(r) ==
    IF redoTakesEffect(r)
    THEN LET imageData == Head(r.redoStack)
         IN  notifySnapshotListeners(render([r EXCEPT
                 !.undoStack = Append(@, r.currentSnapshot),
                 !.redoStack = Tail(@),
                 !.currentSnapshot = imageData,
                 !.baseImageLayer = PutImageData(@, imageData, 0, 0)]))
    ELSE r

redo(r) ==
    IF redoTakesEffect(r)
    THEN LET imageData == Last(r.redoStack)
         IN  notifySnapshotListeners(render([r EXCEPT
                 !.undoStack = Append(@, r.currentSnapshot),
                 !.redoStack = Front(@),
                 !.currentSnapshot = imageData,
                 !.baseImageLayer = PutImageData(@, imageData, 0, 0)]))
    ELSE r

clearRedoStack(r) == notifySnapshotListeners([r EXCEPT !.redoStack = <<>>])

\* the ImageData object snapshot() captures: a new object, the copy of the
\* base layer's pixels
captured(r) ==
    LET img == GetImageData(r.baseImageLayer, r.baseImageLayer.width,
                            r.baseImageLayer.height)
    IN  [id |-> r.allocated + 1, width |-> img.width, height |-> img.height,
         data |-> img.data]

\* faulty variant: the overflow drops the newest entry instead of the oldest
snapshotEvictingNewest(r) ==
    notifySnapshotListeners(
        IF r.currentSnapshot # None
        THEN LET pushed == Append(r.undoStack, r.currentSnapshot)
                 over == Len(pushed) > maxSnapshots
             IN  [r EXCEPT
                     !.undoStack = IF over THEN SubSeq(pushed, 1, Len(pushed) - 1)
                                   ELSE pushed,
                     !.currentSnapshot = captured(r),
                     !.redoStack = <<>>,
                     !.evicted = IF over THEN @ \cup {r.currentSnapshot.id} ELSE @,
                     !.allocated = @ + 1]
        ELSE [r EXCEPT !.currentSnapshot = captured(r), !.allocated = @ + 1])

\* faulty variant: no overflow handling
snapshotWithoutEviction(r) ==
    notifySnapshotListeners(
        IF r.currentSnapshot # None
        THEN [r EXCEPT
                 !.undoStack = Append(@, r.currentSnapshot),
                 !.currentSnapshot = captured(r),
                 !.redoStack = <<>>,
                 !.allocated = @ + 1]
        ELSE [r EXCEPT !.currentSnapshot = captured(r), !.allocated = @ + 1])

\* faulty variant: the redo stack survives a snapshot
snapshotKeepingRedo(r) ==
    notifySnapshotListeners(
        IF r.currentSnapshot # None
        THEN LET pushed == Append(r.undoStack, r.currentSnapshot)
                 over == Len(pushed) > maxSnapshots
             IN  [r EXCEPT
                     !.undoStack = IF over THEN Tail(pushed) ELSE pushed,
                     !.currentSnapshot = captured(r),
                     !.evicted = IF over THEN @ \cup {Head(pushed).id} ELSE @,
                     !.allocated = @ + 1]
        ELSE [r EXCEPT !.currentSnapshot = captured(r), !.allocated = @ + 1])

snapshot(r) ==
    notifySnapshotListeners(
        IF r.currentSnapshot # None
        THEN LET pushed == Append(r.undoStack, r.currentSnapshot)
                 over == Len(pushed) > maxSnapshots
             IN  [r EXCEPT
                     !.undoStack = IF over THEN Tail(pushed) ELSE pushed,
                     !.currentSnapshot = captured(r),
                     !.redoStack = <<>>,
                     !.evicted = IF over THEN @ \cup {Head(pushed).id} ELSE @,
                     !.allocated = @ + 1]
        ELSE [r EXCEPT !.currentSnapshot = captured(r), !.allocated = @ + 1])

\* the two-tone 20 x 20 tile of createCheckeredPattern, repeated
Checkered(p) ==
    IF ((p[1] % 20) < 10) = ((p[2] % 20) < 10)
    THEN <<170, 170, 170, 255>> ELSE <<128, 128, 128, 255>>

initializeBackgroundLayer(r) ==
    [r EXCEPT !.backgroundLayer.data = [p \in DOMAIN @ |-> Checkered(p)]]

updateCanvasSize(r, w, h) ==
    render(initializeBackgroundLayer(
        [r EXCEPT !.canvas = OutputCanvas(w, h),
                  !.backgroundLayer = NewCanvas(w, h)]))

setSelectionOverlay(r, rect) == render([r EXCEPT !.selectionOverlay = rect])

updateZoomAndOffset(r, z, ox, oy) ==
    render([r EXCEPT !.zoom = z, !.offsetX = ox, !.offsetY = oy])

\* faulty variant: the image is always fitted to the height of the canvas
resetViewFittingHeight(r) ==
    LET zoomH == Div(Num(r.canvas.height), Num(r.height))
    IN  updateZoomAndOffset(r, zoomH,
            Div(Sub(Num(r.width), Div(Num(r.canvas.width), zoomH)), Num(-2)),
            Num(0))

resetView(r) ==
    LET imageAspectRatio == Div(Num(r.width), Num(r.height))
        canvasAspectRatio == Div(Num(r.canvas.width), Num(r.canvas.height))
        zoomW == Div(Num(r.canvas.width), Num(r.width))
        zoomH == Div(Num(r.canvas.height), Num(r.height))
    IN  IF Gt(imageAspectRatio, canvasAspectRatio)
        THEN updateZoomAndOffset(r, zoomW, Num(0),
                 Div(Sub(Num(r.height), Div(Num(r.canvas.height), zoomW)), Num(-2)))
        ELSE updateZoomAndOffset(r, zoomH,
                 Div(Sub(Num(r.width), Div(Num(r.canvas.width), zoomH)), Num(-2)),
                 Num(0))

setEditImage(r, imageData) ==
    LET r1 == [r EXCEPT !.hasSelection = (imageData # None)]
        cleared == ClearRect(r.editLayer, r.editLayer.width, r.editLayer.height)
    IN  notifySnapshotListeners(
            IF r.selectionOverlay # None
            THEN render([r1 EXCEPT !.editLayer =
                     IF imageData # None
                     THEN PutImageData(cleared, imageData,
                              Trunc(r.selectionOverlay.x), Trunc(r.selectionOverlay.y))
                     ELSE cleared])
            ELSE r1)

\* the selection setBaseImage centres on an image of size w x h
centredSelection(w, h) ==
    [x |-> Div(Num(w - DefaultSelectionSize), Num(2)),
     y |-> Div(Num(h - DefaultSelectionSize), Num(2)),
     width |-> Num(DefaultSelectionSize), height |-> Num(DefaultSelectionSize)]

\* faulty variant: the overlay layer keeps its size
setBaseImageWithoutOverlayResize(r, image, updateSelectionOverlay) ==
    LET r1 == [initializeBackgroundLayer(r) EXCEPT
                  !.baseImageLayer =
                      DrawImage(NewCanvas(image.width, image.height), image, 0, 0),
                  !.refImageLayer = NewCanvas(image.width, image.height),
                  !.editLayer = NewCanvas(image.width, image.height),
                  !.width = image.width,
                  !.height = image.height]
        r2 == IF updateSelectionOverlay
              THEN setSelectionOverlay(r1, centredSelection(image.width, image.height))
              ELSE r1
    IN  snapshot(resetView(r2))

setBaseImage(r, image, updateSelectionOverlay) ==
    LET r1 == [initializeBackgroundLayer(r) EXCEPT
                  !.baseImageLayer =
                      DrawImage(NewCanvas(image.width, image.height), image, 0, 0),
                  !.refImageLayer = NewCanvas(image.width, image.height),
                  !.editLayer = NewCanvas(image.width, image.height),
                  !.overlayLayer = NewCanvas(image.width, image.height),
                  !.width = image.width,
                  !.height = image.height]
        r2 == IF updateSelectionOverlay
              THEN setSelectionOverlay(r1, centredSelection(image.width, image.height))
              ELSE r1
    IN  snapshot(resetView(r2))

\* faulty variant: the commit discards the edit layer without merging it
commitSelectionWithoutEdit(r) == snapshot(setEditImage(r, None))

commitSelection(r) ==
    LET base == r.baseImageLayer
        tempCanvas == DrawImage(DrawImage(NewCanvas(base.width, base.height),
                                          base, 0, 0),
                                r.editLayer, 0, 0)
        r1 == [r EXCEPT !.baseImageLayer = DrawImage(base, tempCanvas, 0, 0)]
    IN  snapshot(setEditImage(r1, None))

drawPoint(r, x, y, brushSize, color) ==
    render([r EXCEPT !.editLayer = FillDisc(@, x, y, brushSize, color)])

\* faulty variant: the line is stroked on the base layer
drawLineOnBaseLayer(r, x1, y1, x2, y2, brushSize, color) ==
    render([r EXCEPT !.baseImageLayer = StrokeLine(@, x1, y1, x2, y2, brushSize, color)])

drawLine(r, x1, y1, x2, y2, brushSize, color) ==
    render([r EXCEPT !.editLayer = StrokeLine(@, x1, y1, x2, y2, brushSize, color)])

\* the origin of the brushSize x brushSize window getImageData and
\* putImageData use for the stamp at (x, y); their arguments are longs
windowOrigin(x, y, brushSize) ==
    <<Trunc(Sub(x, Div(brushSize, Num(2)))), Trunc(Sub(y, Div(brushSize, Num(2))))>>

\* the positions of the window, relative to its origin, the brush covers
brushed(brushSize) ==
    LET side == Trunc(brushSize)
        half == Div(brushSize, Num(2))
        distance2(q) == Add(Mul(Sub(Num(q[1]), half), Sub(Num(q[1]), half)),
                            Mul(Sub(Num(q[2]), half), Sub(Num(q[2]), half)))
    IN  {q \in (0 .. side - 1) \X (0 .. side - 1) :
            ~Gt(distance2(q), Mul(half, half))}

\* faulty variant: the alpha channel is blended like the colour channels
smudgeStampBlendingAlpha(layer, x, y, brushSize, brushOpacity) ==
    LET origin == windowOrigin(x, y, brushSize)
        covered == brushed(brushSize)
        value(q) == At(layer, origin[1] + q[1], origin[2] + q[2])
        count == Cardinality(covered)
        average(c) == Norm(Sum([q \in covered |-> value(q)[c]], covered), count)
        mixed(q, c) ==
            ToUint8Clamped(Add(Mul(average(c), brushOpacity),
                               Mul(Num(value(q)[c]), Sub(Num(1), brushOpacity))))
    IN  [layer EXCEPT !.data = [p \in DOMAIN layer.data |->
            LET q == <<p[1] - origin[1], p[2] - origin[2]>>
            IN  IF q \in covered
                THEN Stored(<<mixed(q, 1), mixed(q, 2), mixed(q, 3), mixed(q, 4)>>)
                ELSE layer.data[p]]]

\* one pass of the loop of smudgeLine, for the point (x, y) of the line
smudgeStamp(layer, x, y, brushSize, brushOpacity) ==
    LET origin == windowOrigin(x, y, brushSize)
        covered == brushed(brushSize)
        value(q) == At(layer, origin[1] + q[1], origin[2] + q[2])
        count == Cardinality(covered)
        average(c) == Norm(Sum([q \in covered |-> value(q)[c]], covered), count)
        mixed(q, c) ==
            ToUint8Clamped(Add(Mul(average(c), brushOpacity),
                               Mul(Num(value(q)[c]), Sub(Num(1), brushOpacity))))
    IN  [layer EXCEPT !.data = [p \in DOMAIN layer.data |->
            LET q == <<p[1] - origin[1], p[2] - origin[2]>>
            IN  IF q \in covered
                THEN Stored(<<mixed(q, 1), mixed(q, 2), mixed(q, 3), value(q)[4]>>)
                ELSE layer.data[p]]]

\* the number of passes of the loop `for (let i = 0; i < length; i++)`
smudgeLength(x1, y1, x2, y2) ==
    Sqrt(Add(Mul(Sub(x2, x1), Sub(x2, x1)), Mul(Sub(y2, y1), Sub(y2, y1))))

\* the edit layer after the passes i, i + 1, ... of the loop
RECURSIVE smudgeFrom(_, _, _, _, _, _, _, _)
smudgeFrom(layer, i, x1, y1, x2, y2, brushSize, brushOpacity) ==
    LET length == smudgeLength(x1, y1, x2, y2)
        x == Add(x1, Mul(Num(i), Div(Sub(x2, x1), length)))
        y == Add(y1, Mul(Num(i), Div(Sub(y2, y1), length)))
    IN  IF ~Lt(Num(i), length) THEN layer
        ELSE CHOOSE after \in
                 {smudgeFrom(next, i + 1, x1, y1, x2, y2, brushSize, brushOpacity) :
                      next \in {smudgeStamp(layer, x, y, brushSize, brushOpacity)}} : TRUE

\* getImageData throws on a window without pixels
smudgeLineThrows(x1, y1, x2, y2, brushSize) ==
    Trunc(brushSize) = 0 /\ Gt(smudgeLength(x1, y1, x2, y2), Num(0))

smudgeLine(r, x1, y1, x2, y2, brushSize, brushOpacity) ==
    IF smudgeLineThrows(x1, y1, x2, y2, brushSize) THEN r
    ELSE render([r EXCEPT !.editLayer =
                    smudgeFrom(@, 0, x1, y1, x2, y2, brushSize, brushOpacity)])

\* faulty variant: the copy does not mark the selection active
copyEditImageWithoutSelection(r) ==
    notifySnapshotListeners(
        render([r EXCEPT !.editLayer = DrawImage(@, r.baseImageLayer, 0, 0)]))

copyEditImageFromBaseImage(r) ==
    notifySnapshotListeners(
        [render([r EXCEPT !.editLayer = DrawImage(@, r.baseImageLayer, 0, 0)])
            EXCEPT !.hasSelection = TRUE])

\* the bounds erasePoint tests a pixel's position against
eraseEdges(r) ==
    LET s == r.selectionOverlay
        left == s.x
        right == Add(s.x, s.width)
        top == s.y
        bottom == Add(s.y, s.height)
    IN  [leftEdge |-> IF Gt(left, Num(0)) THEN Add(left, Num(EraseMargin)) ELSE left,
         rightEdge |-> IF Lt(right, Num(r.width))
                       THEN Sub(right, Num(EraseMargin)) ELSE right,
         topEdge |-> IF Gt(top, Num(0)) THEN Add(top, Num(EraseMargin)) ELSE top,
         bottomEdge |-> IF Lt(bottom, Num(r.canvas.height))
                        THEN Sub(bottom, Num(EraseMargin)) ELSE bottom]

\* erasePoint's loop body for the pixel at column x, row y of the
\* brushSize x brushSize window it read: TRUE when the pixel's alpha is set to 0
erases(r, brushx, brushy, brushSize, x, y) ==
    LET half == Div(Num(brushSize), Num(2))
        e == eraseEdges(r)
        absx == Add(Sub(Num(x), half), brushx)
        absy == Add(Sub(Num(y), half), brushy)
        containsx == Gt(absx, e.leftEdge) /\ Lt(absx, e.rightEdge)
        containsy == Gt(absy, e.topEdge) /\ Lt(absy, e.bottomEdge)
        dx == Sub(Num(x), half)
        dy == Sub(Num(y), half)
    IN  /\ containsx /\ containsy
        /\ Lt(Add(Mul(dx, dx), Mul(dy, dy)), Mul(half, half))

\* the corner of the window erasePoint reads and writes back: getImageData
\* and putImageData take the origin as a long
eraseOrigin(brushx, brushy, brushSize) ==
    LET half == Div(Num(brushSize), Num(2))
    IN  <<Trunc(Sub(brushx, half)), Trunc(Sub(brushy, half))>>

\* faulty variant: the guard tests the selection flag as well
erasePointThrowsWhileSelecting(r) == r.selectionOverlay = None /\ r.hasSelection

\* erasePoint throws when no selection is set
erasePointThrows(r) == r.selectionOverlay = None

erasePoint(r, brushx, brushy, brushSize) ==
    LET o == eraseOrigin(brushx, brushy, brushSize)
    IN  [r EXCEPT !.baseImageLayer.data = [p \in DOMAIN @ |->
            LET x == p[1] - o[1]
                y == p[2] - o[2]
            IN  IF /\ x >= 0 /\ x < brushSize /\ y >= 0 /\ y < brushSize
                   /\ erases(r, brushx, brushy, brushSize, x, y)
                THEN <<@[p][1], @[p][2], @[p][3], 0>>
                ELSE @[p]]]

expandToOverlayThrows(r) == r.selectionOverlay = None

expandToOverlay(r) ==
    LET s == r.selectionOverlay
        base == r.baseImageLayer
        minX == MinNum(Num(0), s.x)
        minY == MinNum(Num(0), s.y)
        maxX == MaxNum(Add(s.x, s.width), Num(base.width))
        maxY == MaxNum(Add(s.y, s.height), Num(base.height))
        newCanvas == DrawImage(
            NewCanvas(Trunc(Sub(maxX, minX)), Trunc(Sub(maxY, minY))), base,
            Trunc(MaxNum(Num(0), Neg(s.x))), Trunc(MaxNum(Num(0), Neg(s.y))))
        r1 == [r EXCEPT
                  !.selectionOverlay.x = IF Lt(@, Num(0)) THEN Num(0) ELSE @,
                  !.selectionOverlay.y = IF Lt(@, Num(0)) THEN Num(0) ELSE @]
    IN  setBaseImage(r1, newCanvas, FALSE)

(***************************************************************************)
(* Decoding.  A decode is the Image element, the canvas and the promise    *)
(* one call of encodedImageToImageData creates.                            *)
(***************************************************************************)
\* an encoded payload: well-formed, holding an image, or corrupt
Payload(image) == [wellFormed |-> TRUE, image |-> image]

Corrupt == [wellFormed |-> FALSE, image |-> NewCanvas(0, 0)]

\* encodedImageToImageData(encodedImage, format) on the renderer r, ds being
\* the decodes started before: a canvas of the image's size, an Image that
\* starts loading the payload, and a pending promise
encodedImageToImageData(r, ds, encodedImage) ==
    Append(ds, [payload |-> encodedImage,
                canvas |-> NewCanvas(r.width, r.height),
                image |-> "loading",
                promise |-> "pending",
                value |-> None,
                resolutions |-> 0,
                settledBefore |-> 0])

\* the number of decodes of ds whose promise is settled
settled(ds) == Cardinality({i \in 1 .. Len(ds) : ds[i].promise # "pending"})

\* image.onload of decode i: the image is drawn on the decode's canvas and
\* the promise resolved with getImageData(0, 0, this.width, this.height),
\* which throws, leaving the promise pending, when a side is 0
onload(r, ds, i) ==
    LET drawn == DrawImage(ds[i].canvas, ds[i].payload.image, 0, 0)
    IN  IF r.width = 0 \/ r.height = 0
        THEN [ds EXCEPT ![i].image = "loaded", ![i].canvas = drawn]
        ELSE [ds EXCEPT ![i].image = "loaded", ![i].canvas = drawn,
                        ![i].promise = "resolved",
                        ![i].value = GetImageData(drawn, r.width, r.height),
                        ![i].resolutions = @ + 1,
                        ![i].settledBefore = settled(ds)]

\* the error event of decode i's Image: no handler is set for it
onerror(ds, i) == [ds EXCEPT ![i].image = "broken"]

(***************************************************************************)
(* The pencil tool (class PencilTool, TimelapseRecorder.tsx:146-341).  A   *)
(* handler is an operator from the tool, the renderer and the event to the *)
(* tool and the renderer after the handler.  Pointer positions are given   *)
(* in canvas coordinates, as translateMouseToCanvasCoordinates returns     *)
(* them; colours are the pixels the colour strings denote.                 *)
(***************************************************************************)
Black == <<0, 0, 0, 255>>

\* defaultColors[0], "#FFFFFF"
DefaultBrushColor == White

DefaultBrushSize == 10

\* the tool after its constructor
\* colorPicked holds the colour colorPickedListener was called with, until
\* the controls hand it back through updateArgs
PencilTool ==
    [brushSize |-> Num(DefaultBrushSize), panning |-> FALSE, isDrawing |-> FALSE,
     lastX |-> Num(0), lastY |-> Num(0), colorPicking |-> FALSE,
     lastPickedColor |-> Black, dirty |-> FALSE, useReferenceColors |-> FALSE,
     brushColor |-> DefaultBrushColor, colorPicked |-> <<>>]

Handled(t, r) == [tool |-> t, renderer |-> r]

setCursor(r, c) == render([r EXCEPT !.cursor = c])

\* "rgba(r, g, b, a)" of the reference pixel, a in 0 .. 255: as a fill style
\* its alpha is clamped to 1
getReferenceImageColor(r, x, y) ==
    LET pixel == At(r.refImageLayer, Trunc(x), Trunc(y))
    IN  <<pixel[1], pixel[2], pixel[3], IF pixel[4] = 0 THEN 0 ELSE 255>>

\* "#rrggbb" of the base pixel
getPixel(r, x, y) ==
    LET pixel == At(r.baseImageLayer, Trunc(x), Trunc(y))
    IN  <<pixel[1], pixel[2], pixel[3], 255>>

\* brushSize || this.brushSize; a call without the argument passes NaN here,
\* which is as falsy as undefined
orBrushSize(t, brushSize) ==
    IF brushSize = NaN \/ brushSize = Num(0)
    THEN t.brushSize
    ELSE brushSize

sync(t, r, brushSize) ==
    setCursor(r,
        IF t.colorPicking
        THEN [x |-> t.lastX, y |-> t.lastY, radius |-> Div(Num(r.width), Num(20)),
              color |-> t.lastPickedColor, type |-> "colorpicker"]
        ELSE [x |-> t.lastX, y |-> t.lastY,
              radius |-> Div(orBrushSize(t, brushSize), Num(2)),
              color |-> t.brushColor, type |-> "circle-fill"])

\* Controls' effect after a colour was chosen (TimelapseRecorder.tsx:373-386)
updateArgs(t, r, brushSize, brushColor, useReferenceColors) ==
    LET t1 == [t EXCEPT !.brushSize = brushSize, !.brushColor = brushColor,
                        !.useReferenceColors = useReferenceColors,
                        !.colorPicked = <<>>]
    IN  Handled(t1, sync(t1, r, NaN))

pressed(t, pressure) == Mul(Mul(pressure, t.brushSize), Num(2))

onPointerDown(t, r, button, x, y, pressure) ==
    IF t.colorPicking
    THEN Handled(t, r)
    ELSE LET brushSize == pressed(t, pressure)
             color == IF t.useReferenceColors
                      THEN getReferenceImageColor(r, x, y)
                      ELSE t.brushColor
             t1 == IF button = 0
                   THEN [t EXCEPT !.brushColor = color, !.isDrawing = TRUE,
                                  !.lastX = x, !.lastY = y, !.dirty = TRUE]
                   ELSE IF button = 1 THEN [t EXCEPT !.panning = TRUE] ELSE t
             r1 == IF button = 0 THEN drawPoint(r, x, y, brushSize, color) ELSE r
         IN  Handled(t1, sync(t1, r1, brushSize))

\* ZoomHelper.onPan: the view moves by the pointer's movement
onPan(r, movement) ==
    updateZoomAndOffset(r, r.zoom, Add(r.offsetX, movement), Add(r.offsetY, movement))

onPointerMove(t, r, x, y, pressure, movement) ==
    LET brushSize == pressed(t, pressure)
        drawing == ~t.colorPicking /\ ~t.panning /\ t.isDrawing
        t1 == [t EXCEPT
                  !.lastPickedColor = IF t.colorPicking THEN getPixel(r, x, y) ELSE @,
                  !.dirty = IF drawing THEN TRUE ELSE @,
                  !.lastX = x, !.lastY = y]
        r1 == IF t.colorPicking THEN r
              ELSE IF t.panning THEN onPan(r, movement)
              ELSE IF t.isDrawing
                   THEN drawLine(r, t.lastX, t.lastY, x, y, brushSize, t.brushColor)
                   ELSE r
    IN  Handled(t1, sync(t1, r1, brushSize))

onPointerUp(t, r, button) ==
    LET t1 == IF button = 0
              THEN [t EXCEPT
                      !.isDrawing = FALSE,
                      !.colorPicking = FALSE,
                      !.brushColor = IF t.colorPicking THEN t.lastPickedColor ELSE @,
                      !.colorPicked = IF t.colorPicking THEN <<t.lastPickedColor>> ELSE @]
              ELSE IF button = 1 THEN [t EXCEPT !.panning = FALSE] ELSE t
        r1 == IF button = 0 THEN commitSelection(r) ELSE r
    IN  Handled(t1, sync(t1, r1, NaN))

beginColorpicker(t, r) ==
    LET t1 == [t EXCEPT !.colorPicking = TRUE]
    IN  Handled(t1, sync(t1, r, NaN))

(***************************************************************************)
(* The timelapse recorder (component TimelapseRecorder,                    *)
(* TimelapseRecorder.tsx:17-122).  recording and sessionId are its state;  *)
(* effect numbers the closure of the effect that holds the listener and    *)
(* the timer (0: none), lastSnapshot and lastUpload are that closure's     *)
(* variables.  now counts the readings of the clock, uploads are the       *)
(* uploadImage requests made, and notes the snapshot notifications taken.  *)
(***************************************************************************)
TimelapseRecorder ==
    [recording |-> FALSE, sessionId |-> 0, sessions |-> 0,
     effect |-> 0, effects |-> 0, lastSnapshot |-> 0, lastUpload |-> 0,
     now |-> 0, uploads |-> <<>>, notes |-> <<>>]

\* the listener the effect registers
OnTimelapse == "onTimelapse"

onSnapshot(rec) ==
    IF rec.effect = 0 \/ ~rec.recording \/ rec.sessionId = 0
    THEN rec
    ELSE [rec EXCEPT !.now = @ + 1, !.lastSnapshot = rec.now + 1,
                     !.notes = Append(@, [at |-> rec.now + 1, effect |-> rec.effect,
                                          covered |-> FALSE])]

\* the recorder after the renderer made the listener calls in heard
RECURSIVE delivered(_, _)
delivered(rec, calls) ==
    IF calls = <<>>
    THEN rec
    ELSE delivered(IF Head(calls).listener = OnTimelapse THEN onSnapshot(rec) ELSE rec,
                   Tail(calls))

Mounted(rec, r) == [recorder |-> rec, renderer |-> r]

\* the cleanup of the effect, then the effect on the new state
useEffect(rec, r) ==
    LET removed == IF rec.effect # 0 THEN removeSnapshotListener(r, OnTimelapse) ELSE r
    IN  IF rec.sessionId = 0
        THEN Mounted([rec EXCEPT !.effect = 0], removed)
        ELSE Mounted([rec EXCEPT !.effects = @ + 1, !.effect = rec.effects + 1,
                                 !.lastSnapshot = rec.now + 1,
                                 !.lastUpload = rec.now + 2,
                                 !.now = @ + 2],
                     addSnapshotListener(removed, OnTimelapse))

handleRecordClick(rec, r) ==
    LET created == IF rec.sessionId = 0
                   THEN [rec EXCEPT !.sessions = @ + 1, !.sessionId = rec.sessions + 1]
                   ELSE rec
    IN  useEffect([created EXCEPT !.recording = ~rec.recording], r)

handleCleanup(rec, r) ==
    IF rec.sessionId = 0
    THEN Mounted(rec, r)
    ELSE useEffect([rec EXCEPT !.sessionId = 0, !.recording = FALSE], r)

\* getEncodedImage(null, 'jpeg', true): the data URL of an empty canvas has
\* no payload
getEncodedImage(r) ==
    IF r.width = 0 \/ r.height = 0
    THEN ""
    ELSE "jpeg"

inFlight(rec) == {i \in 1 .. Len(rec.uploads) : ~rec.uploads[i].done}

\* the timer's callback up to its await
tick(rec, r) ==
    LET waited == [i \in 1 .. Len(rec.uploads) |->
                      IF rec.uploads[i].done
                      THEN rec.uploads[i]
                      ELSE [rec.uploads[i] EXCEPT !.ticks = @ + 1]]
        rec1 == [rec EXCEPT !.uploads = waited]
    IN  IF rec.effect # 0 /\ rec.recording /\ rec.lastSnapshot > rec.lastUpload
           /\ getEncodedImage(r) # ""
        THEN [rec1 EXCEPT
                 !.now = @ + 1,
                 !.uploads = Append(@, [effect |-> rec.effect,
                                        sessionId |-> rec.sessionId,
                                        burst |-> rec.lastSnapshot,
                                        started |-> rec.now + 1,
                                        ticks |-> 0, done |-> FALSE]),
                 !.notes = [n \in 1 .. Len(rec.notes) |->
                               [rec.notes[n] EXCEPT !.covered = TRUE]]]
        ELSE rec1

\* the timer's callback after its await: uploadImage resolved
uploaded(rec, i) ==
    [rec EXCEPT !.now = @ + 1,
                !.uploads[i].done = TRUE,
                !.lastUpload = IF rec.uploads[i].effect = rec.effect
                               THEN rec.now + 1
                               ELSE @]

(***************************************************************************)
(* The callers' inputs.                                                    *)
(***************************************************************************)
Rect(x, y, w, h) == [x |-> x, y |-> y, width |-> w, height |-> h]

\* sizes of the output canvas element
CanvasSizes == {<<3, 2>>}

\* decoded images handed to setBaseImage
Images == {Surface(2, 3, White)}

\* selections handed to setSelectionOverlay
Selections ==
    {None, Rect(Num(-1), Num(-1), Num(3), Num(3))}

\* ImageData handed to setEditImage
EditImages == {None, Surface(1, 1, Red)}

BrushPositions == {Num(0)}

\* event.button of the pointer events: the main and the middle button
PointerButtons == {0, 1}

\* event.pressure of a light pen stroke: a brush of 2 pixels
Pressures == {<<1, 10>>}

\* pointer movement while panning
PanMovements == {Num(0)}

\* the functions handed to addSnapshotListener
Listeners == {"onSnapshot", "onTimelapse"}

BrushSizes == {2}

(***************************************************************************)
(* The state machine: one action a public method.                          *)
(***************************************************************************)
Becomes(r, o) ==
    /\ undoStack' = r.undoStack
    /\ redoStack' = r.redoStack
    /\ currentSnapshot' = r.currentSnapshot
    /\ backgroundLayer' = r.backgroundLayer
    /\ baseImageLayer' = r.baseImageLayer
    /\ refImageLayer' = r.refImageLayer
    /\ editLayer' = r.editLayer
    /\ overlayLayer' = r.overlayLayer
    /\ overlayImageOpacity' = r.overlayImageOpacity
    /\ referenceImageOpacity' = r.referenceImageOpacity
    /\ selectionOverlay' = r.selectionOverlay
    /\ hasSelection' = r.hasSelection
    /\ cursor' = r.cursor
    /\ zoom' = r.zoom
    /\ offsetX' = r.offsetX
    /\ offsetY' = r.offsetY
    /\ width' = r.width
    /\ height' = r.height
    /\ canvas' = r.canvas
    /\ allocated' = r.allocated
    /\ evicted' = r.evicted
    /\ notified' = r.notified
    /\ snapshotListeners' = r.snapshotListeners
    /\ heard' = r.heard
    /\ sampled' = sampled
    /\ op' = o

\* a call on the renderer: the decodes under way are not touched
\* a call on the renderer: the listeners it called have run when it returns
Apply(r, o) ==
    /\ Becomes(r, o)
    /\ decodes' = decodes
    /\ tool' = tool
    /\ recorder' = delivered(recorder, r.heard)

Call(name, arg, result) == [name |-> name, arg |-> arg, result |-> result]

\* the variables hold the Renderer r
Holds(r) ==
    /\ undoStack = r.undoStack
    /\ redoStack = r.redoStack
    /\ currentSnapshot = r.currentSnapshot
    /\ backgroundLayer = r.backgroundLayer
    /\ baseImageLayer = r.baseImageLayer
    /\ refImageLayer = r.refImageLayer
    /\ editLayer = r.editLayer
    /\ overlayLayer = r.overlayLayer
    /\ overlayImageOpacity = r.overlayImageOpacity
    /\ referenceImageOpacity = r.referenceImageOpacity
    /\ selectionOverlay = r.selectionOverlay
    /\ hasSelection = r.hasSelection
    /\ cursor = r.cursor
    /\ zoom = r.zoom
    /\ offsetX = r.offsetX
    /\ offsetY = r.offsetY
    /\ width = r.width
    /\ height = r.height
    /\ canvas = r.canvas
    /\ allocated = r.allocated
    /\ evicted = r.evicted
    /\ notified = r.notified
    /\ snapshotListeners = r.snapshotListeners
    /\ heard = r.heard

Init ==
    /\ decodes = <<>>
    /\ tool = PencilTool
    /\ recorder = TimelapseRecorder
    /\ sampled = {0}
    /\ \E c \in CanvasSizes : Holds(constructor(c[1], c[2]))
    /\ op = Call("constructor", FALSE, "ok")

Undo ==
    \E allowRedo \in BOOLEAN :
        Apply(undo(Self, allowRedo),
              Call("undo", allowRedo, IF undoTakesEffect(Self) THEN "ok" ELSE "noop"))

Redo ==
    Apply(redo(Self), Call("redo", FALSE, IF redoTakesEffect(Self) THEN "ok" ELSE "noop"))

ClearRedoStack == Apply(clearRedoStack(Self), Call("clearRedoStack", FALSE, "ok"))

\* The actions that call snapshot() are explored while fewer than limit
\* ImageData objects have been allocated.
Snapshot(limit) ==
    /\ allocated < limit
    /\ Apply(snapshot(Self), Call("snapshot", FALSE, "ok"))

SetBaseImage(limit, images) ==
    /\ allocated < limit
    /\ \E image \in images :
           Apply(setBaseImage(Self, image, TRUE), Call("setBaseImage", TRUE, "ok"))

SetSelectionOverlay(rects) ==
    \E rect \in rects :
        Apply(setSelectionOverlay(Self, rect), Call("setSelectionOverlay", FALSE, "ok"))

SetEditImage ==
    \E imageData \in EditImages :
        Apply(setEditImage(Self, imageData),
              Call("setEditImage", imageData # None, "ok"))

CopyEditImageFromBaseImage ==
    Apply(copyEditImageFromBaseImage(Self), Call("copyEditImageFromBaseImage", FALSE, "ok"))

CommitSelection(limit) ==
    /\ allocated < limit
    /\ Apply(commitSelection(Self), Call("commitSelection", FALSE, "ok"))

DrawPoint(positions, sizes, colors) ==
    \E x \in positions, y \in positions, b \in sizes, c \in colors :
        Apply(drawPoint(Self, x, y, Num(b), c), Call("drawPoint", FALSE, "ok"))

DrawLine(segments, sizes, colors) ==
    \E l \in segments, b \in sizes, c \in colors :
        Apply(drawLine(Self, l[1], l[2], l[3], l[4], Num(b), c),
              Call("drawLine", l[1] = l[3] /\ l[2] = l[4], "ok"))

SmudgeLine(segments, sizes, opacities) ==
    \E l \in segments, b \in sizes, o \in opacities :
        Apply(smudgeLine(Self, l[1], l[2], l[3], l[4], Num(b), o),
              Call("smudgeLine", (l[1] = l[3] /\ l[2] = l[4]) \/ o = Num(0),
                   IF smudgeLineThrows(l[1], l[2], l[3], l[4], Num(b))
                   THEN "threw" ELSE "ok"))

AddSnapshotListener ==
    /\ Len(snapshotListeners) < MaxListeners
    /\ \E listener \in Listeners :
           Apply(addSnapshotListener(Self, listener),
                 Call("addSnapshotListener", FALSE, "ok"))

RemoveSnapshotListener ==
    \E listener \in Listeners :
        Apply(removeSnapshotListener(Self, listener),
              Call("removeSnapshotListener", FALSE, "ok"))

ErasePoint(positions, sizes) ==
    \E x \in positions, y \in positions, b \in sizes :
        IF erasePointThrows(Self)
        THEN Apply(Self, Call("erasePoint", FALSE, "threw"))
        ELSE Apply(erasePoint(Self, x, y, b), Call("erasePoint", FALSE, "ok"))

ExpandToOverlay(limit) ==
    IF expandToOverlayThrows(Self)
    THEN Apply(Self, Call("expandToOverlay", FALSE, "threw"))
    ELSE /\ allocated < limit
         /\ Apply(expandToOverlay(Self), Call("expandToOverlay", FALSE, "ok"))

ResetView == Apply(resetView(Self), Call("resetView", FALSE, "ok"))

Render == Apply(render(Self), Call("render", FALSE, "ok"))

UpdateCanvasSize(canvasSizes) ==
    \E c \in canvasSizes :
        Apply(updateCanvasSize(Self, c[1], c[2]), Call("updateCanvasSize", FALSE, "ok"))

(***************************************************************************)
(* The pencil tool's handlers and the recorder's handlers, timer and       *)
(* uploads as actions.                                                     *)
(***************************************************************************)
Handle(h, o) ==
    /\ Becomes(h.renderer, o)
    /\ tool' = h.tool
    /\ decodes' = decodes
    /\ recorder' = delivered(recorder, h.renderer.heard)

OnPointerDown(positions, pressures) ==
    \E button \in PointerButtons, x \in positions, y \in positions, pressure \in pressures :
        Handle(onPointerDown(tool, Self, button, x, y, pressure),
               Call("onPointerDown", button = 0, IF tool.colorPicking THEN "noop" ELSE "ok"))

OnPointerMove(positions, pressures) ==
    \E x \in positions, y \in positions, pressure \in pressures, movement \in PanMovements :
        Handle(onPointerMove(tool, Self, x, y, pressure, movement),
               Call("onPointerMove", tool.isDrawing, "ok"))

OnPointerUp(limit) ==
    \E button \in PointerButtons :
        /\ button = 0 => allocated < limit
        /\ Handle(onPointerUp(tool, Self, button),
                  Call("onPointerUp", button = 0,
                       IF button = 0 /\ tool.colorPicking THEN "picked" ELSE "ok"))

BeginColorpicker ==
    /\ ~tool.colorPicking
    /\ Handle(beginColorpicker(tool, Self), Call("beginColorpicker", FALSE, "ok"))

UpdateArgs ==
    /\ tool.colorPicked # <<>>
    /\ Handle(updateArgs(tool, Self, tool.brushSize, Head(tool.colorPicked), FALSE),
              Call("updateArgs", FALSE, "ok"))

Mount(m, o) ==
    /\ Becomes(m.renderer, o)
    /\ recorder' = m.recorder
    /\ tool' = tool
    /\ decodes' = decodes

HandleRecordClick ==
    /\ recorder.effects < MaxEffects
    /\ Mount(handleRecordClick(recorder, Self),
             Call("handleRecordClick", recorder.recording, "ok"))

HandleCleanup ==
    /\ recorder.sessionId # 0
    /\ Mount(handleCleanup(recorder, Self), Call("handleCleanup", recorder.recording, "ok"))

\* the interval timer fires; an upload lasts at most MaxOverlap periods
Tick ==
    /\ recorder.effect # 0
    /\ \A i \in inFlight(recorder) : recorder.uploads[i].ticks < MaxOverlap
    /\ recorder' = tick(recorder, Self)
    /\ Becomes(Self, Call("tick", Len(recorder'.uploads) > Len(recorder.uploads), "ok"))
    /\ UNCHANGED <<tool, decodes>>

Uploaded ==
    \E i \in inFlight(recorder) :
        /\ recorder' = uploaded(recorder, i)
        /\ Becomes(Self, Call("uploaded", recorder.uploads[i].effect = recorder.effect, "ok"))
        /\ UNCHANGED <<tool, decodes>>

(***************************************************************************)
(* Spec: the renderer from its construction, edited and navigated with     *)
(* small images, tracked at the corner pixel (0, 0).  Strokes on the edit  *)
(* layer are explored in SpecTrace.                                        *)
(***************************************************************************)
Next ==
    \/ Undo
    \/ Redo
    \/ ClearRedoStack
    \/ Snapshot(MaxAlloc)
    \/ SetBaseImage(MaxAlloc, Images)
    \/ SetSelectionOverlay(Selections)
    \/ SetEditImage
    \/ CopyEditImageFromBaseImage
    \/ CommitSelection(MaxAlloc)
    \/ ErasePoint(BrushPositions, BrushSizes)
    \/ ExpandToOverlay(MaxAlloc)

Spec == Init /\ [][Next]_vars

(***************************************************************************)
(* SpecHistory: the renderer with a long history.  It starts in the states *)
(* the constructed renderer reaches by setBaseImage and then               *)
(* maxSnapshots - 2 or maxSnapshots - 1 calls of snapshot(), and goes on   *)
(* until maxSnapshots + MaxExtra snapshots have been taken; undo() is      *)
(* explored while the undo stack holds more than maxSnapshots - MaxBack    *)
(* snapshots.                                                              *)
(***************************************************************************)
RECURSIVE snapshots(_, _)
snapshots(r, n) ==
    IF n = 0 THEN r
    ELSE CHOOSE after \in {snapshots(next, n - 1) :
                                next \in {snapshot([r EXCEPT !.notified = 0, !.heard = <<>>])}} : TRUE

HistoryLimit == maxSnapshots + MaxExtra

InitHistory ==
    /\ decodes = <<>>
    /\ tool = PencilTool
    /\ recorder = TimelapseRecorder
    /\ sampled = {0}
    /\ \E c \in CanvasSizes, image \in Images, n \in {maxSnapshots - 2, maxSnapshots - 1} :
           Holds(snapshots(setBaseImage(constructor(c[1], c[2]), image, TRUE), n))
    /\ op = Call("snapshot", FALSE, "ok")

UndoNearTop ==
    /\ Len(undoStack) > maxSnapshots - MaxBack
    /\ Undo

NextHistory ==
    \/ UndoNearTop
    \/ Redo
    \/ ClearRedoStack
    \/ Snapshot(HistoryLimit)
    \/ SetBaseImage(HistoryLimit, Images)
    \/ CommitSelection(HistoryLimit)

SpecHistory == InitHistory /\ [][NextHistory]_vars

(***************************************************************************)
(* SpecTrace: the editor's scenario on a 1024 x 1024 image, on the         *)
(* 768 x 512 canvas element of the editor, tracked at the image's corner   *)
(* and centre.                                                             *)
(***************************************************************************)
CentreCoord == DefaultSelectionSize \div 2

TraceImages == {Surface(DefaultSelectionSize, DefaultSelectionSize, White)}

TracePositions == {Num(CentreCoord)}

TraceBrushSizes == {20}

TraceColors == {Red, Blue}

InitTrace ==
    /\ decodes = <<>>
    /\ tool = PencilTool
    /\ recorder = TimelapseRecorder
    /\ sampled = {0, CentreCoord}
    /\ Holds(constructor(768, 512))
    /\ op = Call("constructor", FALSE, "ok")

NextTrace ==
    \/ SetBaseImage(MaxAlloc, TraceImages)
    \/ DrawPoint(TracePositions, TraceBrushSizes, TraceColors)
    \/ CommitSelection(MaxAlloc)
    \/ Undo
    \/ Redo

SpecTrace == InitTrace /\ [][NextTrace]_vars

(***************************************************************************)
(* SpecErase: erasing on a 24 x 24 image under canvas elements whose       *)
(* height is or is not the image's, with selections whose edges lie on     *)
(* and inside the image's edges, tracked at one pixel near the image's     *)
(* corner and one more than the margin away from it.                       *)
(***************************************************************************)
EraseImages == {Surface(24, 24, Red)}

EraseCanvasSizes == {<<24, 12>>, <<12, 24>>}

EraseSelections ==
    {Rect(Num(0), Num(0), Num(24), Num(24)),
     Rect(Num(0), Num(0), Num(12), Num(12)),
     Rect(Num(-1), Num(-1), Num(13), Num(25))}

ErasePositions == {Num(1), Num(11), <<3, 2>>, <<23, 2>>}

EraseBrushSizes == {1, 2, 3}

InitErase ==
    /\ decodes = <<>>
    /\ tool = PencilTool
    /\ recorder = TimelapseRecorder
    /\ sampled = {1, 11}
    /\ \E c \in EraseCanvasSizes : Holds(constructor(c[1], c[2]))
    /\ op = Call("constructor", FALSE, "ok")

NextErase ==
    \/ SetBaseImage(MaxAlloc, EraseImages)
    \/ SetSelectionOverlay(EraseSelections)
    \/ ErasePoint(ErasePositions, EraseBrushSizes)
    \/ UpdateCanvasSize(EraseCanvasSizes)
    \/ ResetView

SpecErase == InitErase /\ [][NextErase]_vars

(***************************************************************************)
(* SpecView: the renderer from its construction under canvas elements and  *)
(* images of several aspect ratios, with translucent strokes on the edit   *)
(* layer and repeated render() calls, tracked at the corner pixel (0, 0).  *)
(***************************************************************************)
ViewCanvasSizes == {<<3, 2>>, <<2, 1>>}

ViewImages == {Surface(2, 3, White), Surface(4, 2, White)}

ViewSelections == {Rect(Num(-1), Num(-1), Num(3), Num(3))}

ViewColors == {HalfRed}

InitView ==
    /\ decodes = <<>>
    /\ tool = PencilTool
    /\ recorder = TimelapseRecorder
    /\ sampled = {0}
    /\ \E c \in ViewCanvasSizes : Holds(constructor(c[1], c[2]))
    /\ op = Call("constructor", FALSE, "ok")

NextView ==
    \/ UpdateCanvasSize(ViewCanvasSizes)
    \/ SetBaseImage(MaxAlloc, ViewImages)
    \/ SetSelectionOverlay(ViewSelections)
    \/ ExpandToOverlay(MaxAlloc)
    \/ ResetView
    \/ DrawPoint(BrushPositions, BrushSizes, ViewColors)
    \/ Render

SpecView == InitView /\ [][NextView]_vars

(***************************************************************************)
(* SpecDecode: decodes started on the renderer before and after an image   *)
(* is set.  The browser delivers the load event of an Image whose payload  *)
(* is well-formed and the error event of one whose payload is corrupt.     *)
(***************************************************************************)
DecodePayloads ==
    {Payload(Surface(2, 3, Red)), Payload(Surface(2, 3, Blue)), Corrupt}

EncodedImageToImageData ==
    /\ Len(decodes) < MaxDecodes
    /\ \E encodedImage \in DecodePayloads :
           /\ decodes' = encodedImageToImageData(Self, decodes, encodedImage)
           /\ Becomes(Self, Call("encodedImageToImageData", encodedImage.wellFormed, "ok"))
           /\ UNCHANGED <<tool, recorder>>

ImageLoaded ==
    \E i \in 1 .. Len(decodes) :
        /\ decodes[i].image = "loading"
        /\ decodes[i].payload.wellFormed
        /\ decodes' = onload(Self, decodes, i)
        /\ Becomes(Self, Call("onload", FALSE,
                                IF decodes'[i].promise = "pending" THEN "threw" ELSE "ok"))
        /\ UNCHANGED <<tool, recorder>>

ImageFailed ==
    \E i \in 1 .. Len(decodes) :
        /\ decodes[i].image = "loading"
        /\ ~decodes[i].payload.wellFormed
        /\ decodes' = onerror(decodes, i)
        /\ Becomes(Self, Call("onerror", FALSE, "ok"))
        /\ UNCHANGED <<tool, recorder>>

InitDecode ==
    /\ decodes = <<>>
    /\ tool = PencilTool
    /\ recorder = TimelapseRecorder
    /\ sampled = {0}
    /\ \E c \in CanvasSizes : Holds(constructor(c[1], c[2]))
    /\ op = Call("constructor", FALSE, "ok")

NextDecode ==
    \/ SetBaseImage(MaxAlloc, Images)
    \/ Snapshot(MaxAlloc)
    \/ EncodedImageToImageData
    \/ ImageLoaded
    \/ ImageFailed

SpecDecode ==
    InitDecode /\ [][NextDecode]_vars /\ WF_vars(ImageLoaded) /\ WF_vars(ImageFailed)

(***************************************************************************)
(* SpecPaint: painting on the edit layer of a small image with translucent *)
(* and opaque strokes, committing and reverting, with and without a        *)
(* selection, tracked at the corner pixel (0, 0).                          *)
(***************************************************************************)
PaintColors == {HalfRed}

InitPaint ==
    /\ decodes = <<>>
    /\ tool = PencilTool
    /\ recorder = TimelapseRecorder
    /\ sampled = {0}
    /\ \E c \in CanvasSizes : Holds(constructor(c[1], c[2]))
    /\ op = Call("constructor", FALSE, "ok")

NextPaint ==
    \/ SetBaseImage(MaxAlloc, Images)
    \/ SetSelectionOverlay(Selections)
    \/ SetEditImage
    \/ DrawPoint(BrushPositions, BrushSizes, PaintColors)
    \/ CommitSelection(MaxAlloc)

SpecPaint == InitPaint /\ [][NextPaint]_vars

(***************************************************************************)
(* SpecStroke: strokes and smudges on the edit layer of a 2 x 2 image, all *)
(* of whose pixels are tracked.  It starts when the first image has been   *)
(* set, so that every layer is 2 x 2.  A smudged layer is painted on but   *)
(* not smudged again.                                                      *)
(***************************************************************************)
StrokeImages == {Surface(2, 2, White)}

StrokePositions == {Num(0), Num(2)}

StrokeColors == {Red, Blue}

\* the segments <<x1, y1, x2, y2>> handed to drawLine and smudgeLine: of
\* length 0, 1 and 2
StrokeSegments ==
    {<<Num(1), Num(1), Num(1), Num(1)>>,
     <<Num(1), <<3, 2>>, Num(1), <<1, 2>>>>,
     <<Num(1), Num(1), Num(3), Num(1)>>}

SmudgeOpacities == {Num(0), Num(1)}

InitStroke ==
    /\ decodes = <<>>
    /\ tool = PencilTool
    /\ recorder = TimelapseRecorder
    /\ sampled = {0, 1}
    /\ \E c \in CanvasSizes, image \in StrokeImages :
           Holds(setBaseImage(constructor(c[1], c[2]), image, TRUE))
    /\ op = Call("setBaseImage", TRUE, "ok")

\* smudges are explored on an edit layer that holds stroke colours only,
\* not on one already smudged
SmudgePainted ==
    /\ \A p \in DOMAIN editLayer.data :
           editLayer.data[p] \in StrokeColors \cup {Transparent}
    /\ SmudgeLine(StrokeSegments, BrushSizes, SmudgeOpacities)

NextStroke ==
    \/ DrawPoint(StrokePositions, BrushSizes, StrokeColors)
    \/ DrawLine(StrokeSegments, BrushSizes, StrokeColors)
    \/ SmudgePainted

SpecStroke == InitStroke /\ [][NextStroke]_vars

(***************************************************************************)
(* SpecExpand: expanding a 2 x 2 image to selections that stick out of it  *)
(* on either side, at whole and at fractional coordinates, tracked at the  *)
(* pixels (0..1, 0..1).                                                    *)
(***************************************************************************)
ExpandImages == {Surface(2, 2, Red)}

ExpandSelections ==
    {Rect(Num(-1), Num(-1), Num(3), Num(3)),
     Rect(Num(1), Num(0), Num(2), Num(3)),
     Rect(<<1, 2>>, Num(0), Num(2), Num(2))}

InitExpand ==
    /\ decodes = <<>>
    /\ tool = PencilTool
    /\ recorder = TimelapseRecorder
    /\ sampled = {0, 1}
    /\ \E c \in CanvasSizes : Holds(constructor(c[1], c[2]))
    /\ op = Call("constructor", FALSE, "ok")

NextExpand ==
    \/ SetBaseImage(MaxAlloc, ExpandImages)
    \/ SetSelectionOverlay(ExpandSelections)
    \/ ExpandToOverlay(MaxAlloc)

SpecExpand == InitExpand /\ [][NextExpand]_vars

(***************************************************************************)
(* SpecListen: the renderer with snapshot listeners registered and         *)
(* removed between the calls that notify them.                             *)
(***************************************************************************)
InitListen ==
    /\ decodes = <<>>
    /\ tool = PencilTool
    /\ recorder = TimelapseRecorder
    /\ sampled = {0}
    /\ \E c \in CanvasSizes : Holds(constructor(c[1], c[2]))
    /\ op = Call("constructor", FALSE, "ok")

NextListen ==
    \/ AddSnapshotListener
    \/ RemoveSnapshotListener
    \/ SetBaseImage(MaxAlloc, Images)
    \/ Snapshot(MaxAlloc)
    \/ Undo
    \/ Redo
    \/ ClearRedoStack
    \/ SetEditImage
    \/ CopyEditImageFromBaseImage

SpecListen == InitListen /\ [][NextListen]_vars

(***************************************************************************)
(* SpecPencil: the pencil tool on a small image, from the moment the first *)
(* image has been set: strokes, colour picks, panning and stray pointer    *)
(* events, with undo() and redo() between them, tracked at the corner      *)
(* pixel (0, 0).                                                           *)
(***************************************************************************)
InitPencil ==
    /\ decodes = <<>>
    /\ recorder = TimelapseRecorder
    /\ sampled = {0}
    /\ \E useReferenceColors \in BOOLEAN :
           tool = [PencilTool EXCEPT !.useReferenceColors = useReferenceColors]
    /\ \E c \in CanvasSizes, image \in Images :
           Holds(setBaseImage(constructor(c[1], c[2]), image, TRUE))
    /\ op = Call("setBaseImage", TRUE, "ok")

NextPencil ==
    \/ OnPointerDown(BrushPositions, Pressures)
    \/ OnPointerMove(BrushPositions, Pressures)
    \/ OnPointerUp(MaxAlloc)
    \/ BeginColorpicker
    \/ UpdateArgs
    \/ Undo
    \/ Redo

SpecPencil == InitPencil /\ [][NextPencil]_vars

(***************************************************************************)
(* SpecRecord: the timelapse recorder on a renderer whose first image has  *)
(* been set: recording is started, stopped and cleaned up while snapshots  *)
(* are taken, the timer fires and uploads complete.  The timer keeps       *)
(* firing and every upload completes.                                      *)
(***************************************************************************)
InitRecord ==
    /\ decodes = <<>>
    /\ tool = PencilTool
    /\ recorder = TimelapseRecorder
    /\ sampled = {0}
    /\ \E c \in CanvasSizes, image \in Images :
           Holds(setBaseImage(constructor(c[1], c[2]), image, TRUE))
    /\ op = Call("setBaseImage", TRUE, "ok")

NextRecord ==
    \/ Snapshot(MaxAlloc)
    \/ HandleRecordClick
    \/ HandleCleanup
    \/ Tick
    \/ Uploaded

SpecRecord ==
    InitRecord /\ [][NextRecord]_vars /\ WF_vars(Tick) /\ WF_vars(Uploaded)

(***************************************************************************)
(* Claims about the undo/redo history.                                     *)
(***************************************************************************)
\* C1: in every state reached with at most 50 snapshot() calls (nothing
\* evicted) in which undo() takes effect, undo() followed at once by redo()
\* leaves the base layer exactly as it was before the undo(), whatever
\* operations came before (erasePoint included).
C1_UndoRedoRestoresBase ==
    (allocated <= maxSnapshots /\ evicted = {} /\ undoTakesEffect(Self)) =>
        redo(undo(Self, TRUE)).baseImageLayer = baseImageLayer

\* a state in which erasePoint has just edited the base layer away from the
\* current snapshot and undo() takes effect
C1_ErasedSinceSnapshot ==
    /\ op = Call("erasePoint", FALSE, "ok")
    /\ undoTakesEffect(Self)
    /\ baseImageLayer.data # currentSnapshot.data

\* C2: in every reachable state commitSelection() leaves hasSelection false
\* and canUndo() true, and an undo() right after it puts back the base layer
\* that was there just before the commit.
C2_CommitCreatesUndoPoint ==
    LET committed == commitSelection(Self)
    IN  /\ ~committed.hasSelection
        /\ canUndo(committed)
        /\ undo(committed, TRUE).baseImageLayer = baseImageLayer

\* commitSelection() has just run on a renderer that had no snapshot yet
C2_FirstCommit ==
    /\ op = Call("commitSelection", FALSE, "ok")
    /\ allocated = 1
    /\ ~canUndo(Self)

\* C3: from every state of the editor's scenario, setBaseImage with the
\* 1024 x 1024 image makes the selection the whole image; drawPoint(512, 512,
\* 20, red) then changes the edit layer (and the frame drawn from it) and
\* nothing else; commitSelection() then makes the base pixel (512, 512) opaque
\* red; and undo() then gives that pixel the value it had before the draw.
C3_EndToEndTrace ==
    \A image \in TraceImages :
        LET loaded == setBaseImage(Self, image, TRUE)
            drawn == drawPoint(loaded, Num(CentreCoord), Num(CentreCoord),
                               Num(20), Red)
            committed == commitSelection(drawn)
            undone == undo(committed, TRUE)
            full == Num(DefaultSelectionSize)
        IN  /\ loaded.selectionOverlay = Rect(Num(0), Num(0), full, full)
            /\ drawn.editLayer # loaded.editLayer
            /\ [drawn EXCEPT !.editLayer = loaded.editLayer,
                             !.canvas = loaded.canvas] = loaded
            /\ At(committed.baseImageLayer, CentreCoord, CentreCoord) = Red
            /\ At(undone.baseImageLayer, CentreCoord, CentreCoord)
                   = At(loaded.baseImageLayer, CentreCoord, CentreCoord)

\* the scenario has run: the red stroke was committed on the 1024 x 1024
\* image and then undone
C3_TraceRan ==
    /\ op = Call("undo", TRUE, "ok")
    /\ width = DefaultSelectionSize /\ height = DefaultSelectionSize
    /\ selectionOverlay # None
    /\ Len(redoStack) > 0
    /\ At(Last(redoStack), CentreCoord, CentreCoord) = Red
    /\ At(baseImageLayer, CentreCoord, CentreCoord) = White

\* the identities of the snapshots the history holds
liveSnapshots ==
    {undoStack[i].id : i \in 1 .. Len(undoStack)}
        \cup {redoStack[i].id : i \in 1 .. Len(redoStack)}
        \cup (IF currentSnapshot = None THEN {} ELSE {currentSnapshot.id})

\* C4: a snapshot taken when the undo stack is full removes the oldest entry
\* of the stack and appends the then current snapshot (FIFO); and a removed
\* snapshot is never again the current snapshot, never on either stack, and
\* so never written to the base layer by a later undo(), redo(), snapshot()
\* or clearRedoStack().
C4_EvictionIsFifoAndFinal ==
    /\ [](liveSnapshots \cap evicted = {})
    /\ [][(allocated' # allocated /\ Len(undoStack) = maxSnapshots) =>
            /\ undoStack' = Append(Tail(undoStack), currentSnapshot)
            /\ evicted' = evicted \cup {undoStack[1].id}]_vars
    /\ [][(op'.name \in {"undo", "redo"} /\ op'.result = "ok") =>
            /\ currentSnapshot'.id \notin evicted
            /\ baseImageLayer'.data = currentSnapshot'.data]_vars

\* undo() has just taken effect on a history that lost snapshots to eviction
C4_UndoAfterEviction ==
    /\ evicted # {}
    /\ op.name = "undo" /\ op.result = "ok"
    /\ Len(undoStack) < maxSnapshots

\* C5, as the specification words it: canUndo() is false exactly when the
\* undo stack is empty.
C5_CanUndoIffNonEmpty == canUndo(Self) <=> Len(undoStack) > 0

\* C5, amended: canUndo() is false exactly when the undo stack is empty or a
\* selection is active.
C5_CanUndoFalseIffEmptyOrSelecting ==
    ~canUndo(Self) <=> (Len(undoStack) = 0 \/ hasSelection)

\* the undo stack holds snapshots while a selection is active
C5_SelectingWithHistory ==
    /\ hasSelection
    /\ Len(undoStack) > 0
    /\ ~canUndo(Self)

\* the calls that end an active selection
endsSelection(o) ==
    \/ o.name = "commitSelection"
    \/ o.name = "setEditImage" /\ ~o.arg

\* the calls that start one
startsSelection(o) ==
    \/ o.name = "copyEditImageFromBaseImage"
    \/ o.name = "setEditImage" /\ o.arg

\* C6: canUndo() is (undo stack non-empty and no selection active), canRedo()
\* is (redo stack non-empty and no selection active); both are false right
\* after copyEditImageFromBaseImage() and setEditImage(non-null), and stay
\* false over every call that is not commitSelection() or setEditImage(null).
C6_NavigationSuspendedWhileSelecting ==
    /\ [](/\ canUndo(Self) = (Len(undoStack) > 0 /\ ~hasSelection)
          /\ canRedo(Self) = (Len(redoStack) > 0 /\ ~hasSelection)
          /\ startsSelection(op) => (~canUndo(Self) /\ ~canRedo(Self)))
    /\ [][(hasSelection /\ ~endsSelection(op')) =>
            (hasSelection' /\ ~canUndo(Self)' /\ ~canRedo(Self)')]_vars

\* copyEditImageFromBaseImage() has just run on a history with snapshots to
\* undo and to redo
C6_CopiedWithHistory ==
    /\ op.name = "copyEditImageFromBaseImage"
    /\ Len(undoStack) > 0
    /\ Len(redoStack) > 0

\* C7: the undo stack never holds more than 50 snapshots.
C7_UndoStackBounded == Len(undoStack) <= maxSnapshots

\* redo() has just pushed onto the undo stack and filled it, in a history
\* that has overflowed
C7_RedoFillsStack ==
    /\ op.name = "redo" /\ op.result = "ok"
    /\ Len(undoStack) = maxSnapshots
    /\ evicted # {}

\* the calls that take a snapshot
takesSnapshot(o) ==
    /\ o.name \in {"snapshot", "setBaseImage", "expandToOverlay", "commitSelection"}
    /\ o.result = "ok"

\* C8: the redo stack is empty right after snapshot() and after each of
\* setBaseImage, expandToOverlay and commitSelection, which end with a
\* snapshot; the first snapshot included.
C8_SnapshotClearsRedo ==
    /\ takesSnapshot(op) => redoStack = <<>>
    /\ snapshot(Self).redoStack = <<>>
    /\ commitSelection(Self).redoStack = <<>>
    /\ \A image \in Images : setBaseImage(Self, image, TRUE).redoStack = <<>>
    /\ ~expandToOverlayThrows(Self) => expandToOverlay(Self).redoStack = <<>>

\* snapshot() has just run after an undo(): the snapshot that was current
\* before the undo() is gone from the history
C8_SnapshotAfterUndo ==
    /\ op.name = "snapshot"
    /\ Len(undoStack) > 0
    /\ redoStack = <<>>
    /\ currentSnapshot.id > Last(undoStack).id + 1

\* the part of the renderer undo() and redo() work on
history(r) ==
    <<r.baseImageLayer, r.currentSnapshot, r.undoStack, r.redoStack>>

\* C9: while a selection is active, undo() and redo() change neither the base
\* layer, nor the current snapshot, nor the stacks.
C9_NoNavigationWhileSelecting ==
    hasSelection =>
        /\ \A allowRedo \in BOOLEAN : history(undo(Self, allowRedo)) = history(Self)
        /\ history(redo(Self)) = history(Self)

\* undo() has just taken effect although a selection is active
C9_UndoneWhileSelecting ==
    /\ hasSelection
    /\ op.name = "undo" /\ op.result = "ok"

(***************************************************************************)
(* Claims about erasing.                                                   *)
(***************************************************************************)
\* the margin-adjusted bounds of the selection: EraseMargin inside each edge
\* of the selection that lies inside the image, the edge itself where it lies
\* on or beyond the image's edge
marginAdjusted(r) ==
    LET s == r.selectionOverlay
        right == Add(s.x, s.width)
        bottom == Add(s.y, s.height)
    IN  [left |-> IF Gt(s.x, Num(0)) THEN Add(s.x, Num(EraseMargin)) ELSE s.x,
         right |-> IF Lt(right, Num(r.width))
                   THEN Sub(right, Num(EraseMargin)) ELSE right,
         top |-> IF Gt(s.y, Num(0)) THEN Add(s.y, Num(EraseMargin)) ELSE s.y,
         bottom |-> IF Lt(bottom, Num(r.height))
                    THEN Sub(bottom, Num(EraseMargin)) ELSE bottom]

\* the pixel p lies outside the bounds b
outside(p, b) ==
    \/ Lt(Num(p[1]), b.left) \/ Gt(Num(p[1]), b.right)
    \/ Lt(Num(p[2]), b.top) \/ Gt(Num(p[2]), b.bottom)

\* the pixel p lies brushSize / 2 or more from the centre of the window
\* erasePoint reads for the brush
farFromCentre(p, brushx, brushy, brushSize) ==
    LET o == eraseOrigin(brushx, brushy, brushSize)
        half == Div(Num(brushSize), Num(2))
        dx == Sub(Num(p[1] - o[1]), half)
        dy == Sub(Num(p[2] - o[2]), half)
    IN  ~Lt(Add(Mul(dx, dx), Mul(dy, dy)), Mul(half, half))

\* C10: for every brush position and size, erasePoint changes the alpha of no
\* base-layer pixel outside the margin-adjusted bounds of the selection and
\* of none brushSize / 2 or more from the window's centre; a pixel it changes
\* gets alpha 0 and keeps its R, G and B.
C10_EraseStaysInsideBounds ==
    ~erasePointThrows(Self) =>
        \A x \in ErasePositions, y \in ErasePositions, b \in EraseBrushSizes :
            LET after == erasePoint(Self, x, y, b).baseImageLayer.data
            IN  \A p \in DOMAIN baseImageLayer.data :
                    LET was == baseImageLayer.data[p]
                    IN  after[p] # was =>
                            /\ ~outside(p, marginAdjusted(Self))
                            /\ ~farFromCentre(p, x, y, b)
                            /\ after[p] = <<was[1], was[2], was[3], 0>>

\* erasePoint has just cleared a pixel that lies outside the margin-adjusted
\* bounds of the selection
C10_ErasedOutsideBounds ==
    /\ op = Call("erasePoint", FALSE, "ok")
    /\ \E p \in DOMAIN baseImageLayer.data :
           /\ baseImageLayer.data[p][4] = 0
           /\ outside(p, marginAdjusted(Self))
           /\ currentSnapshot # None
           /\ currentSnapshot.data[p][4] = 255

\* C11: the bounds erasePoint tests against are the selection's edges moved
\* EraseMargin inwards, except on a side where the selection's edge is on the
\* image's edge (x = 0, y = 0, the image width, the image height), whatever
\* the sizes of the image and of the canvas element.
C11_MarginUnlessOnImageEdge ==
    ~erasePointThrows(Self) =>
        LET e == eraseEdges(Self)
            m == marginAdjusted(Self)
        IN  /\ e.leftEdge = m.left
            /\ e.rightEdge = m.right
            /\ e.topEdge = m.top
            /\ e.bottomEdge = m.bottom

\* erasePoint has just run with a selection whose bottom edge is inside the
\* image but not above the bottom of the canvas element
C11_BottomEdgeInsideImage ==
    /\ op = Call("erasePoint", FALSE, "ok")
    /\ Lt(Add(selectionOverlay.y, selectionOverlay.height), Num(height))
    /\ ~Lt(Add(selectionOverlay.y, selectionOverlay.height), Num(canvas.height))
    /\ eraseEdges(Self).bottomEdge = Add(selectionOverlay.y, selectionOverlay.height)

(***************************************************************************)
(* Claims about failing calls.                                             *)
(***************************************************************************)
\* what a failing call must leave alone: the layers, the image's size, the
\* view, the output, the selection and the history
rendererState ==
    <<backgroundLayer, baseImageLayer, refImageLayer, editLayer, overlayLayer,
      width, height, zoom, offsetX, offsetY, canvas, selectionOverlay,
      hasSelection, currentSnapshot, undoStack, redoStack, allocated>>

\* C12: with no selection set, erasePoint and expandToOverlay throw; the
\* throwing call changes no layer, not the image's size, not the view, not
\* the current snapshot and not the stacks, and notifies no listener.
C12_ThrowsWithoutSelection ==
    /\ [](selectionOverlay = None =>
            erasePointThrows(Self) /\ expandToOverlayThrows(Self))
    /\ [](op.result = "threw" => notified = 0)
    /\ [][(op'.name \in {"erasePoint", "expandToOverlay"} /\ selectionOverlay = None) =>
            /\ op'.result = "threw"
            /\ UNCHANGED rendererState
            /\ notified' = 0]_vars

\* expandToOverlay has just thrown on a renderer with an image and a history
C12_ExpandThrew ==
    /\ op = Call("expandToOverlay", FALSE, "threw")
    /\ width > 0
    /\ Len(undoStack) > 0

(***************************************************************************)
(* Claims about rendering and the layers.                                  *)
(***************************************************************************)
\* C13: in every reachable state a render() that follows a render() leaves
\* the output as the first left it.
C13_RenderIdempotent ==
    render(render(Self)).canvas = render(Self).canvas

\* render() has just run on a renderer that has no image and no background
\* pattern yet, with a translucent stroke on the edit layer
C13_RenderedTranslucentOnBlank ==
    /\ op = Call("render", FALSE, "ok")
    /\ width = 0 /\ height = 0
    /\ At(backgroundLayer, 0, 0) = Transparent
    /\ At(editLayer, 0, 0)[4] \in 1 .. 254
    /\ canvas.data[<<0, 0>>] # render(Self).canvas.data[<<0, 0>>]

\* the size of a layer
sizeOf(layer) == <<layer.width, layer.height>>

\* C14: the base, reference, edit and overlay layers always have the same
\* width and the same height; a call that changes the size of one of them is
\* setBaseImage, directly or inside expandToOverlay, and it leaves the four
\* with one size again.
C14_LayersShareSize ==
    /\ [](/\ sizeOf(refImageLayer) = sizeOf(baseImageLayer)
          /\ sizeOf(editLayer) = sizeOf(baseImageLayer)
          /\ sizeOf(overlayLayer) = sizeOf(baseImageLayer))
    /\ [][(\/ sizeOf(baseImageLayer)' # sizeOf(baseImageLayer)
           \/ sizeOf(refImageLayer)' # sizeOf(refImageLayer)
           \/ sizeOf(editLayer)' # sizeOf(editLayer)
           \/ sizeOf(overlayLayer)' # sizeOf(overlayLayer)) =>
            /\ op'.name \in {"setBaseImage", "expandToOverlay"}
            /\ sizeOf(baseImageLayer)' # sizeOf(baseImageLayer)
            /\ sizeOf(refImageLayer)' = sizeOf(baseImageLayer)'
            /\ sizeOf(editLayer)' = sizeOf(baseImageLayer)'
            /\ sizeOf(overlayLayer)' = sizeOf(baseImageLayer)']_vars

\* expandToOverlay has just changed the size of the layers
C14_ExpandResized ==
    /\ op = Call("expandToOverlay", FALSE, "ok")
    /\ Len(undoStack) > 0
    /\ sizeOf(Last(undoStack)) # sizeOf(baseImageLayer)
    /\ sizeOf(overlayLayer) = sizeOf(baseImageLayer)

\* the rectangle s lies within the image of the renderer r
withinImage(s, r) ==
    /\ ~Lt(s.x, Num(0))
    /\ ~Lt(s.y, Num(0))
    /\ ~Gt(Add(s.x, s.width), Num(r.width))
    /\ ~Gt(Add(s.y, s.height), Num(r.height))

\* C15: the selection setBaseImage(image) sets lies within the image,
\* whatever the image's size: x >= 0, y >= 0, x + width <= image width,
\* y + height <= image height.
C15_SelectionClampedToImage ==
    \A image \in ViewImages :
        LET loaded == setBaseImage(Self, image, TRUE)
        IN  withinImage(loaded.selectionOverlay, loaded)

\* setBaseImage has just set a selection that starts left of and above an
\* image smaller than DefaultSelectionSize
C15_SelectionBeyondSmallImage ==
    /\ op = Call("setBaseImage", TRUE, "ok")
    /\ width < DefaultSelectionSize /\ height < DefaultSelectionSize
    /\ selectionOverlay = centredSelection(width, height)
    /\ Lt(selectionOverlay.x, Num(0))
    /\ Gt(Add(selectionOverlay.x, selectionOverlay.width), Num(width))

(***************************************************************************)
(* Claims about decoding.                                                  *)
(***************************************************************************)
\* C16: every decode eventually completes: the promise of a decode of a
\* well-formed payload resolves and the promise of a decode of a corrupt
\* payload rejects, so none stays pending forever.
C16_EveryDecodeCompletes ==
    \A i \in 1 .. MaxDecodes :
        [](i <= Len(decodes)
              => <>(/\ i <= Len(decodes)
                    /\ decodes[i].promise =
                           IF decodes[i].payload.wellFormed THEN "resolved" ELSE "rejected"))

\* a decode of a corrupt payload whose error event was delivered
C16_ErrorEventDelivered ==
    \E i \in 1 .. Len(decodes) :
        /\ ~decodes[i].payload.wellFormed
        /\ decodes[i].image = "broken"
        /\ width > 0 /\ height > 0

\* C17: two decodes pending at the same time resolve independently: each
\* that has resolved did so exactly once, with the raster of its own
\* payload, whichever completed first.
C17_DecodesResolveWithOwnRaster ==
    \A i \in 1 .. Len(decodes) :
        decodes[i].promise = "resolved"
            => /\ decodes[i].resolutions = 1
               /\ decodes[i].value = decodes[i].payload.image

\* two decodes were pending together and both have resolved, the second first
C17_BothResolvedSecondFirst ==
    /\ Len(decodes) = 2
    /\ decodes[1].promise = "resolved" /\ decodes[2].promise = "resolved"
    /\ decodes[1].settledBefore = 1
    /\ decodes[1].payload # decodes[2].payload

(***************************************************************************)
(* Claims about the view transform.                                        *)
(***************************************************************************)
\* the image is wider than the viewport: imageWidth/imageHeight exceeds
\* viewportWidth/viewportHeight, compared without dividing
widerThanViewport(r) == r.width * r.canvas.height > r.canvas.width * r.height

\* C18: resetView() of an image wider than the viewport sets zoom to
\* viewportWidth/imageWidth, offsetX to 0 and offsetY to
\* (imageHeight - viewportHeight/zoom)/-2; of any other image, equal aspect
\* ratios included, it sets zoom to viewportHeight/imageHeight, offsetY to 0
\* and offsetX to (imageWidth - viewportWidth/zoom)/-2.
C18_ResetViewFitsImage ==
    (width > 0 /\ height > 0) =>
        LET reset == resetView(Self)
        IN  IF widerThanViewport(Self)
            THEN /\ reset.zoom = Norm(canvas.width, width)
                 /\ reset.offsetX = Num(0)
                 /\ reset.offsetY =
                        Norm(canvas.height * width - height * canvas.width,
                             2 * canvas.width)
            ELSE /\ reset.zoom = Norm(canvas.height, height)
                 /\ reset.offsetY = Num(0)
                 /\ reset.offsetX =
                        Norm(canvas.width * height - width * canvas.height,
                             2 * canvas.height)

\* resetView() has run on an image wider than the viewport
C18_ResetWiderImage ==
    /\ op.name = "resetView"
    /\ width > 0 /\ height > 0
    /\ widerThanViewport(Self)
    /\ offsetY # Num(0)

\* C19: in every state reached through the constructor, updateCanvasSize,
\* setBaseImage, expandToOverlay and resetView with positive viewport and
\* image sizes, zoom is a finite number greater than 0.
C19_ZoomFinitePositive == IsFinite(zoom) /\ Gt(zoom, Num(0))

\* resetView() has run before the first setBaseImage, in a viewport of
\* positive size
C19_ResetBeforeFirstImage ==
    /\ op.name = "resetView"
    /\ width = 0 /\ height = 0
    /\ canvas.width > 0 /\ canvas.height > 0

(***************************************************************************)
(* Claims about what undo() and redo() leave on the base layer.            *)
(***************************************************************************)
\* the base layer of r holds the current snapshot of r and nothing else
showsCurrentSnapshot(r) ==
    /\ r.baseImageLayer.width = r.currentSnapshot.width
    /\ r.baseImageLayer.height = r.currentSnapshot.height
    /\ r.baseImageLayer.data = r.currentSnapshot.data

\* C20: after an undo() or a redo() that takes effect the base layer's
\* raster equals the newly installed current snapshot exactly, dimensions
\* included, also when the history holds snapshots of different sizes.
C20_BaseEqualsInstalledSnapshot ==
    /\ undoTakesEffect(Self) =>
           \A allowRedo \in BOOLEAN : showsCurrentSnapshot(undo(Self, allowRedo))
    /\ redoTakesEffect(Self) => showsCurrentSnapshot(redo(Self))

\* undo() has installed a snapshot taken before expandToOverlay() enlarged
\* the image
C20_UndoneAcrossExpansion ==
    /\ op.name = "undo" /\ op.result = "ok"
    /\ currentSnapshot.width < width
    /\ Len(redoStack) > 0

(***************************************************************************)
(* Claims about painting on the edit layer.                                *)
(***************************************************************************)
\* every pixel of the layer is transparent
cleared(layer) == \A p \in DOMAIN layer.data : layer.data[p] = Transparent

\* C21: in every reachable state, with or without a selection,
\* commitSelection() and setEditImage(null) leave the edit layer fully
\* cleared, and a second commitSelection() right after the first leaves the
\* base layer as the first left it.
C21_CommitClearsEditLayer ==
    LET committed == commitSelection(Self)
    IN  /\ cleared(committed.editLayer)
        /\ cleared(setEditImage(Self, None).editLayer)
        /\ commitSelection(committed).baseImageLayer = committed.baseImageLayer

\* commitSelection() has run without a selection on an edit layer that two
\* strokes had painted
C21_CommittedWithoutSelection ==
    /\ op.name = "commitSelection"
    /\ selectionOverlay = None
    /\ width > 0
    /\ At(baseImageLayer, 0, 0) \notin {White, Transparent}

\* what a stroke must leave alone: every layer but the edit layer, the
\* selection and the history
besidesEditLayer(r) ==
    [baseImageLayer |-> r.baseImageLayer,
     refImageLayer |-> r.refImageLayer,
     overlayLayer |-> r.overlayLayer,
     backgroundLayer |-> r.backgroundLayer,
     selectionOverlay |-> r.selectionOverlay,
     hasSelection |-> r.hasSelection,
     currentSnapshot |-> r.currentSnapshot,
     undoStack |-> r.undoStack,
     redoStack |-> r.redoStack]

\* colours and brush opacities of the strokes the claims try in every state
TriedColors == StrokeColors \cup {HalfRed}

TriedOpacities == SmudgeOpacities \cup {<<1, 2>>}

\* C22: drawPoint, drawLine and smudgeLine change only the edit layer and
\* the rendered output: the base, reference and overlay layers, the
\* selection, hasSelection, the current snapshot and the undo and redo
\* stacks are as before.
C22_StrokesTouchOnlyEditLayer ==
    /\ \A x \in StrokePositions, y \in StrokePositions, b \in BrushSizes, c \in TriedColors :
           besidesEditLayer(drawPoint(Self, x, y, Num(b), c)) = besidesEditLayer(Self)
    /\ \A l \in StrokeSegments, b \in BrushSizes, c \in TriedColors :
           besidesEditLayer(drawLine(Self, l[1], l[2], l[3], l[4], Num(b), c))
               = besidesEditLayer(Self)
    /\ \A l \in StrokeSegments, b \in BrushSizes, o \in TriedOpacities :
           besidesEditLayer(smudgeLine(Self, l[1], l[2], l[3], l[4], Num(b), o))
               = besidesEditLayer(Self)

\* drawLine() has painted the edit layer of an image whose base layer is
\* still as it was set
C22_LineOnEditLayer ==
    /\ op.name = "drawLine"
    /\ At(editLayer, 1, 1) = Red
    /\ At(baseImageLayer, 0, 0) = White

\* the centres of the windows smudgeLine stamps along the segment l with a
\* brush of the given size, in edit-layer coordinates
stampCentres(l, brushSize) ==
    LET length == smudgeLength(l[1], l[2], l[3], l[4])
        point(i) == <<Add(l[1], Mul(Num(i), Div(Sub(l[3], l[1]), length))),
                      Add(l[2], Mul(Num(i), Div(Sub(l[4], l[2]), length)))>>
        passes == {i \in 0 .. Trunc(length) : Lt(Num(i), length)}
    IN  {<<Add(Num(windowOrigin(point(i)[1], point(i)[2], brushSize)[1]),
               Div(brushSize, Num(2))),
           Add(Num(windowOrigin(point(i)[1], point(i)[2], brushSize)[2]),
               Div(brushSize, Num(2)))>> : i \in passes}

\* the pixel p lies farther than brushSize/2 from the point c
beyondBrush(p, c, brushSize) ==
    Gt(Add(Mul(Sub(Num(p[1]), c[1]), Sub(Num(p[1]), c[1])),
           Mul(Sub(Num(p[2]), c[2]), Sub(Num(p[2]), c[2]))),
       Mul(Div(brushSize, Num(2)), Div(brushSize, Num(2))))

\* brush sizes the claim tries in every state
TriedBrushSizes == BrushSizes \cup {1, 3}

\* C23: smudgeLine leaves the alpha of every edit-layer pixel as it was,
\* leaves every channel of a pixel farther than brushSize/2 from the centre
\* of every stamp window as it was, and changes nothing on the edit layer
\* when the line has length 0 or brushOpacity is 0.
C23_SmudgeKeepsAlphaAndOutside ==
    \A l \in StrokeSegments, b \in TriedBrushSizes, o \in TriedOpacities :
        LET smudged == smudgeLine(Self, l[1], l[2], l[3], l[4], Num(b), o).editLayer
        IN  /\ \A p \in DOMAIN editLayer.data :
                   /\ smudged.data[p][4] = editLayer.data[p][4]
                   /\ (\A c \in stampCentres(l, Num(b)) : beyondBrush(p, c, Num(b)))
                          => smudged.data[p] = editLayer.data[p]
            /\ ((l[1] = l[3] /\ l[2] = l[4]) \/ o = Num(0)) => smudged = editLayer

\* smudgeLine() has blended the colours of an edit layer holding pixels of
\* two colours and a transparent one
C23_SmudgedTwoColours ==
    /\ op = Call("smudgeLine", FALSE, "ok")
    /\ \E p \in DOMAIN editLayer.data :
           /\ editLayer.data[p][4] = 255
           /\ editLayer.data[p] \notin {Red, Blue}
    /\ \E p \in DOMAIN editLayer.data : editLayer.data[p] = Transparent

(***************************************************************************)
(* Claims about expandToOverlay().                                         *)
(***************************************************************************)
\* C24: expandToOverlay() with the selection (sx, sy, sw, sh) on a W x H
\* image makes the image (max(sx+sw, W) - min(0, sx)) wide and
\* (max(sy+sh, H) - min(0, sy)) high, keeps the selection's size, moves
\* its origin to (max(0, sx), max(0, sy)), inside the new image, and puts
\* every old base pixel (x, y) at (x + max(0, -sx), y + max(0, -sy)).
C24_ExpandBoundsImageAndSelection ==
    selectionOverlay # None =>
        LET s == selectionOverlay
            expanded == expandToOverlay(Self)
            shiftX == MaxNum(Num(0), Neg(s.x))
            shiftY == MaxNum(Num(0), Neg(s.y))
        IN  /\ Num(expanded.width) =
                   Sub(MaxNum(Add(s.x, s.width), Num(baseImageLayer.width)),
                       MinNum(Num(0), s.x))
            /\ Num(expanded.height) =
                   Sub(MaxNum(Add(s.y, s.height), Num(baseImageLayer.height)),
                       MinNum(Num(0), s.y))
            /\ sizeOf(expanded.baseImageLayer) = <<expanded.width, expanded.height>>
            /\ expanded.selectionOverlay =
                   Rect(MaxNum(Num(0), s.x), MaxNum(Num(0), s.y), s.width, s.height)
            /\ withinImage(expanded.selectionOverlay, expanded)
            /\ \A p \in DOMAIN baseImageLayer.data :
                   (/\ InBounds(baseImageLayer, p[1], p[2])
                    /\ shiftX[2] = 1 /\ shiftY[2] = 1
                    /\ <<p[1] + shiftX[1], p[2] + shiftY[1]>>
                           \in DOMAIN expanded.baseImageLayer.data)
                       => At(expanded.baseImageLayer, p[1] + shiftX[1], p[2] + shiftY[1])
                              = baseImageLayer.data[p]

\* expandToOverlay() has run with a selection whose left edge lay at a
\* fractional coordinate inside the image
C24_ExpandedFractionalSelection ==
    /\ op = Call("expandToOverlay", FALSE, "ok")
    /\ selectionOverlay.x = <<1, 2>>

(***************************************************************************)
(* Claims about rendering and listeners.                                   *)
(***************************************************************************)
\* C25: every operation that changes what render() draws (a layer's
\* pixels, an opacity, the cursor, the image size or the view transform)
\* has run render() on the resulting state when it returns: the output
\* shows the frame of the new state.
C25_ChangesAreRendered ==
    [][Frame(Self)' # Frame(Self) => canvas'.frame = Frame(Self)']_vars

\* erasePoint() has returned and the output still shows the base layer as
\* it was before
C25_StaleAfterErase ==
    /\ op = Call("erasePoint", FALSE, "ok")
    /\ canvas.frame # None
    /\ canvas.frame.base # baseImageLayer.data

(***************************************************************************)
(* Claims about the snapshot listeners.                                    *)
(***************************************************************************)
\* what one call made on the current renderer told the listeners
toldAll(after) == after.heard = invoked(after, snapshotListeners)

toldNone(after) == after.heard = <<>>

\* C26: snapshot(), an undo() or redo() that takes effect, clearRedoStack(),
\* setEditImage() and copyEditImageFromBaseImage() call every registered
\* snapshot listener once, in the order of registration, and each listener
\* reads the canUndo() and canRedo() of the state the operation leaves; an
\* undo() or redo() that does not take effect calls no listener.
C26_ListenersToldInOrder ==
    /\ toldAll(snapshot(Self))
    /\ toldAll(clearRedoStack(Self))
    /\ toldAll(copyEditImageFromBaseImage(Self))
    /\ \A imageData \in EditImages : toldAll(setEditImage(Self, imageData))
    /\ \A allowRedo \in BOOLEAN :
           IF undoTakesEffect(Self)
           THEN toldAll(undo(Self, allowRedo))
           ELSE toldNone(undo(Self, allowRedo))
    /\ IF redoTakesEffect(Self) THEN toldAll(redo(Self)) ELSE toldNone(redo(Self))
    /\ op.name \in {"snapshot", "clearRedoStack", "copyEditImageFromBaseImage",
                    "setEditImage"}
           => heard = invoked(Self, snapshotListeners)
    /\ op.name \in {"undo", "redo"}
           => heard = IF op.result = "ok"
                      THEN invoked(Self, snapshotListeners)
                      ELSE <<>>

\* an undo that emptied the undo stack told two listeners, first registered
\* first, that nothing is left to undo and one step can be redone
C26_UndoToldTwoListeners ==
    /\ op.name = "undo"
    /\ op.result = "ok"
    /\ snapshotListeners = <<"onTimelapse", "onSnapshot">>
    /\ heard = <<[listener |-> "onTimelapse", canUndo |-> FALSE, canRedo |-> TRUE],
                 [listener |-> "onSnapshot", canUndo |-> FALSE, canRedo |-> TRUE]>>

(***************************************************************************)
(* Claims about the history as a zipper.                                   *)
(***************************************************************************)
\* the snapshots of the history from the oldest to the newest
timeline(r) == r.undoStack \o <<r.currentSnapshot>> \o Reversed(r.redoStack)

\* C27: an undo() with allowRedo = true or a redo() that takes effect moves
\* the current position and leaves the sequence
\* undoStack ++ [currentSnapshot] ++ reverse(redoStack) as it was; whenever
\* the undo stack or the redo stack is non-empty a current snapshot exists.
C27_HistoryIsZipper ==
    /\ undoTakesEffect(Self) =>
           /\ timeline(undo(Self, TRUE)) = timeline(Self)
           /\ Len(undo(Self, TRUE).undoStack) = Len(undoStack) - 1
    /\ redoTakesEffect(Self) =>
           /\ timeline(redo(Self)) = timeline(Self)
           /\ Len(redo(Self).undoStack) = Len(undoStack) + 1
    /\ (Len(undoStack) > 0 \/ Len(redoStack) > 0) => currentSnapshot # None

\* a redo took effect in the middle of the history: two steps were still
\* undone and the undo stack was not empty
C27_RedoneInTheMiddle ==
    /\ op.name = "redo"
    /\ op.result = "ok"
    /\ Len(redoStack) >= 2
    /\ Len(undoStack) >= 2

(***************************************************************************)
(* Claims about the pencil tool.                                           *)
(***************************************************************************)
\* nothing is to be committed: a colour is being picked, or no stroke is
\* being drawn and the edit layer is empty
nothingDrawn == tool.colorPicking \/ (~tool.isDrawing /\ cleared(editLayer))

\* C28: a button-0 pointer-up that ends a colour pick, or that comes when
\* nothing was drawn since the last commit, leaves the undo stack, the redo
\* stack and the current snapshot of the renderer unchanged.
C28_IdlePointerUpKeepsHistory ==
    [][(op'.name = "onPointerUp" /\ op'.arg /\ nothingDrawn)
           => UNCHANGED <<undoStack, redoStack, currentSnapshot>>]_vars

\* a pointer-up ended a colour pick and left a new snapshot whose pixels are
\* those of the snapshot it pushed on the undo stack
C28_PickRecorded ==
    /\ op.name = "onPointerUp"
    /\ op.result = "picked"
    /\ Len(undoStack) > 0
    /\ currentSnapshot.data = Last(undoStack).data
    /\ currentSnapshot # Last(undoStack)

(***************************************************************************)
(* Claims about the timelapse recorder.                                    *)
(***************************************************************************)
recordingSession == recorder.recording /\ recorder.sessionId # 0

\* the n-th snapshot notification was taken by the effect that is still in
\* place, and no upload started after it
uncovered(n) ==
    /\ n <= Len(recorder.notes)
    /\ ~recorder.notes[n].covered
    /\ recorder.notes[n].effect = recorder.effect

\* C29: while the recorder records with a session, every snapshot
\* notification it takes is eventually covered by an upload that starts
\* after the notification, also when the notification comes while an upload
\* is in flight.
C29_SnapshotsEventuallyUploaded ==
    \A n \in 1 .. MaxAlloc :
        uncovered(n) ~> ~uncovered(n)

\* a snapshot was taken while an upload was in flight, the upload completed,
\* and the recorder sees nothing left to upload
C29_SnapshotLostInFlight ==
    /\ recordingSession
    /\ inFlight(recorder) = {}
    /\ \E n \in 1 .. Len(recorder.notes) : uncovered(n)
    /\ recorder.lastSnapshot < recorder.lastUpload
    /\ op.name = "uploaded"

\* C30: at most one uploadImage request is in flight at a time, no two
\* uploads are started for the same burst of snapshots, and every upload is
\* started while recording with a session.
C30_OneUploadAtATime ==
    /\ Cardinality(inFlight(recorder)) <= 1
    /\ \A i, j \in 1 .. Len(recorder.uploads) :
           (recorder.uploads[i].effect = recorder.uploads[j].effect
            /\ recorder.uploads[i].burst = recorder.uploads[j].burst) => i = j
    /\ (op.name = "tick" /\ op.arg) => recordingSession

\* a tick started a second upload for a burst whose first upload is still in
\* flight
C30_SecondUploadOfBurst ==
    /\ op.name = "tick"
    /\ op.arg
    /\ \E i, j \in inFlight(recorder) :
           /\ i < j
           /\ recorder.uploads[i].burst = recorder.uploads[j].burst
           /\ recorder.uploads[i].effect = recorder.uploads[j].effect

====
